---- MODULE Spec2Model ----
(***************************************************************************)
(* omo-switch: profile store, apply / add / rm command handlers (OMO mode), *)
(* the deep-merge engine and the diff renderer.                             *)
(*                                                                          *)
(* The file system is modelled by one variable per persisted artefact.      *)
(* A command whose handler has no await between its first read and its last *)
(* write is one action; apply, which awaits the schema and then performs a  *)
(* backup, a target write and a state save, is one action per file-system   *)
(* effect (applyPc).                                                        *)
(***************************************************************************)
EXTENDS Naturals, Sequences, FiniteSets, TLC

(***************************************************************************)
(* Bounds of the model.                                                     *)
(***************************************************************************)
\* number of command invocations in one behaviour
MaxOps == 3

(***************************************************************************)
(* Universe of strings.                                                     *)
(***************************************************************************)
Null == "<null>"
NoFile == "<absent>"

\* profile ids (file stems in a configs directory)
Ids == {"dev", "prod"}
\* readdir order of the stems
IdOrder == <<"dev", "prod">>
\* display names given with --name
Names == {"Dev"}
\* identifiers typed on the command line of apply / rm
Identifiers == Ids \cup Names
\* the two dialect extensions
Exts == {".jsonc", ".json"}
\* raw file contents: one document the schema accepts, one it rejects
GoodDoc == "{\"agents\":{}}"
BadDoc == "{\"agents\":1}"
Contents == {GoodDoc, BadDoc}
\* content of a target file written by hand before the tool was used
LegacyTarget == "{\"legacy\":true}"
Scopes == {"user", "project"}

\* String.prototype.toLowerCase on the strings of the universe
ToLowerCase(s) == IF s = "Dev" THEN "dev" ELSE s

\* Validator.validate: the schema (an opaque input) accepts a document or not
Valid(content) == content = GoodDoc


(***************************************************************************)
(* JSON documents.  A value is a tagged record; an object is the sequence   *)
(* of its own properties in insertion order.  In the heap the properties of *)
(* an object and the items of an array are scalars or references.           *)
(***************************************************************************)
\* largest number used as a scalar in a document
MaxNum == 2

JNull == [t |-> "null", v |-> 0]
JUndef == [t |-> "undef", v |-> 0]
JNum(n) == [t |-> "num", v |-> n]
JStr(str) == [t |-> "str", v |-> str]
JArr(items) == [t |-> "arr", v |-> items]
JObj(props) == [t |-> "obj", v |-> props]
\* a function object inherited from Object.prototype
JFn(name) == [t |-> "fn", v |-> name]
Ref(a) == [t |-> "ref", v |-> a]
Prop(key, c) == [k |-> key, c |-> c]

\* property names of the documents; toString is also a member of Object.prototype
Keys == {"a", "toString"}
KeyOrder == <<"a", "toString">>
ProtoKeys == {"toString"}

\* Object.keys(o)
ObjectKeys(o) == [i \in 1..Len(o.v) |-> o.v[i].k]
HasOwn(o, key) == \E i \in 1..Len(o.v) : o.v[i].k = key
OwnIndex(o, key) == CHOOSE i \in 1..Len(o.v) : o.v[i].k = key
\* o[key]: the own property, else the inherited member, else undefined
GetProp(o, key) ==
  IF HasOwn(o, key) THEN o.v[OwnIndex(o, key)].c
  ELSE IF key \in ProtoKeys THEN JFn(key)
  ELSE JUndef
\* key in o
KeyIn(o, key) == HasOwn(o, key) \/ key \in ProtoKeys
\* o[key] = c
SetProp(o, key, c) ==
  IF HasOwn(o, key) THEN [o EXCEPT !.v[OwnIndex(o, key)].c = c]
  ELSE [o EXCEPT !.v = Append(@, Prop(key, c))]

\* a new heap object
Alloc(h, o) == [h |-> Append(h, o), c |-> Ref(Len(h) + 1)]
\* h[a][key] = c
HeapSet(h, a, key, c) == [h EXCEPT ![a] = SetProp(h[a], key, c)]

RECURSIVE Build(_, _), BuildItems(_, _, _), BuildProps(_, _, _)
\* the heap objects a parser creates for a value
Build(h, val) ==
  IF val.t = "arr"
  THEN LET r == BuildItems(h, val.v, 1) IN Alloc(r.h, JArr(r.cs))
  ELSE IF val.t = "obj"
  THEN LET r == BuildProps(h, val.v, 1) IN Alloc(r.h, JObj(r.cs))
  ELSE [h |-> h, c |-> val]
BuildItems(h, items, i) ==
  IF i > Len(items) THEN [h |-> h, cs |-> <<>>]
  ELSE LET r == Build(h, items[i])
           rest == BuildItems(r.h, items, i + 1)
       IN [h |-> rest.h, cs |-> <<r.c>> \o rest.cs]
BuildProps(h, props, i) ==
  IF i > Len(props) THEN [h |-> h, cs |-> <<>>]
  ELSE LET r == Build(h, props[i].c)
           rest == BuildProps(r.h, props, i + 1)
       IN [h |-> rest.h, cs |-> <<Prop(props[i].k, r.c)>> \o rest.cs]

RECURSIVE Val(_, _)
\* the value a heap cell stands for
Val(h, c) ==
  IF c.t # "ref" THEN c
  ELSE IF h[c.v].t = "arr"
  THEN JArr([i \in 1..Len(h[c.v].v) |-> Val(h, h[c.v].v[i])])
  ELSE JObj([i \in 1..Len(h[c.v].v) |-> Prop(h[c.v].v[i].k, Val(h, h[c.v].v[i].c))])

RECURSIVE Canon(_)
\* a value with the insertion order of its properties forgotten
Canon(val) ==
  IF val.t = "obj"
  THEN [t |-> "obj", v |-> [key \in {val.v[i].k : i \in 1..Len(val.v)} |->
                              Canon(GetProp(val, key))]]
  ELSE IF val.t = "arr"
  THEN JArr([i \in 1..Len(val.v) |-> Canon(val.v[i])])
  ELSE val

\* deep equality of two values (as toEqual compares them)
DeepEqual(x, y) == Canon(x) = Canon(y)

(***************************************************************************)
(* deepMerge and deepClone on the heap.                                     *)
(***************************************************************************)
\* isPlainObject: typeof "object", not null, not an array
IsPlainObject(h, c) == c.t = "ref" /\ h[c.v].t = "obj"

RECURSIVE DeepClone(_, _), CloneItems(_, _, _), CloneProps(_, _, _, _)
DeepClone(h, c) ==
  IF c.t # "ref" THEN [h |-> h, c |-> c]
  ELSE IF h[c.v].t = "arr"
  THEN LET r == CloneItems(h, h[c.v].v, 1) IN Alloc(r.h, JArr(r.cs))
  ELSE LET r0 == Alloc(h, JObj(<<>>))
       IN [h |-> CloneProps(r0.h, r0.c.v, h[c.v].v, 1), c |-> r0.c]
CloneItems(h, items, i) ==
  IF i > Len(items) THEN [h |-> h, cs |-> <<>>]
  ELSE LET r == DeepClone(h, items[i])
           rest == CloneItems(r.h, items, i + 1)
       IN [h |-> rest.h, cs |-> <<r.c>> \o rest.cs]
CloneProps(h, res, props, i) ==
  IF i > Len(props) THEN h
  ELSE LET r == DeepClone(h, props[i].c)
       IN CloneProps(HeapSet(r.h, res, props[i].k, r.c), res, props, i + 1)

RECURSIVE DeepMerge(_, _, _), MergeBaseKeys(_, _, _, _, _, _),
          MergeOverrideKeys(_, _, _, _, _, _)
\* variant: a null in override does not replace what base holds
MergeBaseKeysNullKept(h, res, base, override, keys, i) ==
  IF i > Len(keys) THEN h
  ELSE LET baseVal == GetProp(h[base], keys[i])
           overrideVal == GetProp(h[override], keys[i])
           r == IF overrideVal.t \in {"undef", "null"} THEN DeepClone(h, baseVal)
                ELSE IF IsPlainObject(h, baseVal) /\ IsPlainObject(h, overrideVal)
                THEN DeepMerge(h, baseVal.v, overrideVal.v)
                ELSE DeepClone(h, overrideVal)
       IN MergeBaseKeys(HeapSet(r.h, res, keys[i], r.c), res, base, override,
                        keys, i + 1)

\* first loop of deepMerge: the keys of base
MergeBaseKeys(h, res, base, override, keys, i) ==
  IF i > Len(keys) THEN h
  ELSE LET baseVal == GetProp(h[base], keys[i])
           overrideVal == GetProp(h[override], keys[i])
           r == IF overrideVal.t = "undef" THEN DeepClone(h, baseVal)
                ELSE IF IsPlainObject(h, baseVal) /\ IsPlainObject(h, overrideVal)
                THEN DeepMerge(h, baseVal.v, overrideVal.v)
                ELSE DeepClone(h, overrideVal)
       IN MergeBaseKeys(HeapSet(r.h, res, keys[i], r.c), res, base, override,
                        keys, i + 1)
\* variant: the keys that only override holds are left out
MergeOverrideKeysDropped(h, res, base, override, keys, i) == h

\* second loop of deepMerge: the keys of override that are not in base
MergeOverrideKeys(h, res, base, override, keys, i) ==
  IF i > Len(keys) THEN h
  ELSE IF ~KeyIn(h[base], keys[i])
  THEN LET r == DeepClone(h, GetProp(h[override], keys[i]))
       IN MergeOverrideKeys(HeapSet(r.h, res, keys[i], r.c), res, base, override,
                            keys, i + 1)
  ELSE MergeOverrideKeys(h, res, base, override, keys, i + 1)

\* variant: the result object is base itself instead of a new object
DeepMergeInPlace(h, base, override) ==
  LET h1 == MergeBaseKeys(h, base, base, override, ObjectKeys(h[base]), 1)
      h2 == MergeOverrideKeys(h1, base, base, override, ObjectKeys(h1[override]), 1)
  IN [h |-> h2, c |-> Ref(base)]

\* deepMerge(base, override) on the objects at addresses base and override
DeepMerge(h, base, override) ==
  LET r0 == Alloc(h, JObj(<<>>))
      h1 == MergeBaseKeys(r0.h, r0.c.v, base, override, ObjectKeys(h[base]), 1)
      h2 == MergeOverrideKeys(h1, r0.c.v, base, override, ObjectKeys(h1[override]), 1)
  IN [h |-> h2, c |-> r0.c]

(***************************************************************************)
(* The documents the merge is checked on.                                   *)
(***************************************************************************)
Nums == 1..MaxNum
Leaves == {JNull} \cup {JNum(n) : n \in Nums}
            \cup {JArr(<<JStr("a"), JStr("b")>>), JArr(<<JStr("c")>>)}
Inner == {JObj(<<>>), JObj(<<Prop("a", JObj(<<>>))>>),
          JObj(<<Prop("toString", JNum(1))>>)}
           \cup {JObj(<<Prop("a", JNum(n))>>) : n \in Nums}
\* what a document holds under one key (JUndef: the key is absent)
Slots == {JUndef} \cup Leaves \cup Inner
AssocSlots == {JUndef, JObj(<<>>), JObj(<<Prop("a", JNum(1))>>)}
                \cup {JNum(n) : n \in Nums}

MkDoc(f) ==
  JObj(SelectSeq([i \in 1..Len(KeyOrder) |-> Prop(KeyOrder[i], f[KeyOrder[i]])],
                 LAMBDA p : p.c.t # "undef"))
Docs == {MkDoc(f) : f \in [Keys -> Slots]}
AssocDocs == {MkDoc(f) : f \in [Keys -> AssocSlots]}
EmptyDoc == JObj(<<>>)


(***************************************************************************)
(* The diff renderer.  It only reads its arguments, so it is defined on     *)
(* values.  chalk's colouring is left out: a line is its plain text.        *)
(***************************************************************************)
\* String(n) for the numbers of the documents
NumStr(n) ==
  CASE n = 0 -> "0" [] n = 1 -> "1" [] n = 2 -> "2" [] n = 3 -> "3" [] n = 4 -> "4"
    [] n = 5 -> "5" [] n = 6 -> "6" [] n = 7 -> "7" [] n = 8 -> "8" [] n = 9 -> "9"

\* String(f) of an inherited function
FnStr(name) == "function " \o name \o "() { [native code] }"

RECURSIVE Join(_, _, _)
\* strs.slice(i - 1).join(sep)
Join(strs, sep, i) ==
  IF i > Len(strs) THEN ""
  ELSE IF i = Len(strs) THEN strs[i]
  ELSE strs[i] \o sep \o Join(strs, sep, i + 1)

RECURSIVE Repeat(_, _)
\* str.repeat(n)
Repeat(str, n) == IF n = 0 THEN "" ELSE str \o Repeat(str, n - 1)

RECURSIVE Stringify(_)
\* JSON.stringify(val); "undefined" stands for the value undefined
Stringify(val) ==
  CASE val.t = "null" -> "null"
    [] val.t = "num" -> NumStr(val.v)
    [] val.t = "str" -> "\"" \o val.v \o "\""
    [] val.t = "arr" ->
         "[" \o Join([i \in 1..Len(val.v) |->
                        IF val.v[i].t \in {"fn", "undef"} THEN "null"
                        ELSE Stringify(val.v[i])], ",", 1) \o "]"
    [] val.t = "obj" ->
         "{" \o Join([i \in 1..Len(SelectSeq(val.v, LAMBDA p : p.c.t \notin {"fn", "undef"})) |->
                        "\"" \o SelectSeq(val.v, LAMBDA p : p.c.t \notin {"fn", "undef"})[i].k
                             \o "\":"
                             \o Stringify(SelectSeq(val.v, LAMBDA p : p.c.t \notin {"fn", "undef"})[i].c)],
                     ",", 1) \o "}"
    [] OTHER -> "undefined"

\* width below which formatJsonValue keeps an array or object on one line
InlineWidth == 60

RECURSIVE FormatJsonValue(_, _)
FormatJsonValue(val, indentLevel) ==
  CASE val.t = "undef" -> "undefined"
    [] val.t = "null" -> "null"
    [] val.t = "str" -> "\"" \o val.v \o "\""
    [] val.t = "num" -> NumStr(val.v)
    [] val.t = "arr" ->
         IF Len(val.v) = 0 THEN "[]"
         ELSE LET items == [i \in 1..Len(val.v) |-> FormatJsonValue(val.v[i], indentLevel + 1)]
              IN IF Len(Join(items, ", ", 1)) < InlineWidth
                 THEN "[" \o Join(items, ", ", 1) \o "]"
                 ELSE "[\n" \o Join([i \in 1..Len(items) |->
                                       Repeat("  ", indentLevel + 1) \o items[i]], ",\n", 1)
                        \o "\n" \o Repeat("  ", indentLevel) \o "]"
    [] val.t = "obj" ->
         IF Len(val.v) = 0 THEN "{}"
         ELSE LET pairs == [i \in 1..Len(val.v) |->
                              "\"" \o val.v[i].k \o "\": "
                                \o FormatJsonValue(val.v[i].c, indentLevel + 1)]
              IN IF Len(Join(pairs, ", ", 1)) < InlineWidth
                 THEN "{ " \o Join(pairs, ", ", 1) \o " }"
                 ELSE "{\n" \o Join([i \in 1..Len(pairs) |->
                                       Repeat("  ", indentLevel + 1) \o pairs[i]], ",\n", 1)
                        \o "\n" \o Repeat("  ", indentLevel) \o "}"
    [] OTHER -> FnStr(val.v)

\* Array.from(keys).sort() for keys of the universe
SortedKeys(keys) == SelectSeq(KeyOrder, LAMBDA key : key \in keys)

KeySet(o) == {o.v[i].k : i \in 1..Len(o.v)}

DiffLine(type, key, path, globalValue, projectValue, mergedValue) ==
  [type |-> type, key |-> key, path |-> path, globalValue |-> globalValue,
   projectValue |-> projectValue, mergedValue |-> mergedValue]

\* variant: the comparison looks at the merged value instead of the global one
DiffLeafStale(key, path, global, merged, project) ==
  IF KeyIn(project, key) /\ ~KeyIn(global, key)
  THEN DiffLine("added", key, path, JUndef, GetProp(project, key), GetProp(merged, key))
  ELSE IF KeyIn(project, key) /\ KeyIn(global, key)
  THEN IF Stringify(GetProp(merged, key)) # Stringify(GetProp(project, key))
       THEN DiffLine("modified", key, path, GetProp(global, key),
                     GetProp(project, key), GetProp(merged, key))
       ELSE DiffLine("unchanged", key, path, JUndef, JUndef, GetProp(merged, key))
  ELSE DiffLine("unchanged", key, path, GetProp(global, key), JUndef, GetProp(merged, key))

\* collectDiffLines, a key that is not a document on both sides
DiffLeaf(key, path, global, merged, project) ==
  IF KeyIn(project, key) /\ ~KeyIn(global, key)
  THEN DiffLine("added", key, path, JUndef, GetProp(project, key), GetProp(merged, key))
  ELSE IF KeyIn(project, key) /\ KeyIn(global, key)
  THEN IF Stringify(GetProp(global, key)) # Stringify(GetProp(project, key))
       THEN DiffLine("modified", key, path, GetProp(global, key),
                     GetProp(project, key), GetProp(merged, key))
       ELSE DiffLine("unchanged", key, path, JUndef, JUndef, GetProp(merged, key))
  ELSE DiffLine("unchanged", key, path, GetProp(global, key), JUndef, GetProp(merged, key))

RECURSIVE CollectDiffLines(_, _, _, _)
\* collectDiffLines, a key that holds a document in global and in merged
DiffNested(key, path, global, merged, project) ==
  IF Len(CollectDiffLines(GetProp(global, key), GetProp(merged, key),
                          IF GetProp(project, key).t = "obj"
                          THEN GetProp(project, key) ELSE EmptyDoc,
                          path)) > 0
  THEN DiffLine(IF KeyIn(project, key) THEN "modified" ELSE "unchanged", key, path,
                GetProp(global, key), GetProp(project, key), GetProp(merged, key))
  ELSE DiffLine("unchanged", key, path, JUndef, JUndef, GetProp(merged, key))

CollectDiffLines(global, merged, project, pathPrefix) ==
  LET keys == SortedKeys(KeySet(global) \cup KeySet(merged) \cup KeySet(project))
  IN [i \in 1..Len(keys) |->
        LET path == IF pathPrefix # "" THEN pathPrefix \o "." \o keys[i] ELSE keys[i]
        IN IF GetProp(global, keys[i]).t = "obj" /\ GetProp(merged, keys[i]).t = "obj"
           THEN DiffNested(keys[i], path, global, merged, project)
           ELSE DiffLeaf(keys[i], path, global, merged, project)]

RECURSIVE FormatFrom(_, _, _)
\* the entries formatDiffLines pushes for diffLines[i], diffLines[i+1], ...
FormatFrom(diffLines, indentLevel, i) ==
  IF i > Len(diffLines) THEN <<>>
  ELSE LET diff == diffLines[i]
           indent == Repeat("  ", indentLevel)
           comma == IF i = Len(diffLines) THEN "" ELSE ","
           plus == indent \o "+ \"" \o diff.key \o "\": "
                     \o FormatJsonValue(diff.mergedValue, indentLevel) \o comma
                     \o " // [project]"
       IN (CASE diff.type = "added" -> <<plus>>
             [] diff.type = "modified" ->
                  <<indent \o "- \"" \o diff.key \o "\": "
                      \o FormatJsonValue(diff.globalValue, indentLevel)
                      \o " // [global]", plus>>
             [] OTHER -> <<indent \o "\"" \o diff.key \o "\": "
                             \o FormatJsonValue(diff.mergedValue, indentLevel) \o comma>>)
          \o FormatFrom(diffLines, indentLevel, i + 1)

FormatDiffLines(diffLines, indentLevel) == FormatFrom(diffLines, indentLevel, 1)

\* the array generateDiffOutput joins with newlines
DiffOutputLines(global, merged, project) ==
  <<"// Merged configuration (project overrides global)",
    "// " \o Repeat("-", 50),
    "{">>
  \o FormatDiffLines(CollectDiffLines(global, merged, project, ""), 1)
  \o <<"}">>

GenerateDiffOutput(global, merged, project) ==
  Join(DiffOutputLines(global, merged, project), "\n", 1)

VARIABLES
  index,        \* global index.json: [activeProfileId, profiles]
  gConfigs,     \* global configs/: id -> ext -> content | NoFile
  gBackups,     \* global backups/: set of [file, content]
  gDirs,        \* global store directories exist
  schemaCached, \* cache/schema/oh-my-opencode.schema.json exists
  userTarget,   \* user target dir: ext -> content | NoFile
  pDirs,        \* project directories: "none" | "full" (.opencode and below)
  pConfigs,     \* project omo-configs/: id -> ext -> content | NoFile
  pBackups,     \* project backups/: set of [file, content]
  rc,           \* project .omorc: [exists, activeProfileId]
  pTarget,      \* project target .opencode/oh-my-opencode.jsonc
  applyPc,      \* position of the running apply handler
  applyLocal,   \* its local variables
  outcome,      \* result of the last finished invocation
  lastCmd,      \* the last finished invocation and its arguments
  snap,         \* persisted state when the last invocation started
  ops,          \* invocations started so far
  raced,        \* ids another process added to the index while an apply was running
  heap,         \* the objects and arrays of the documents, by address
  docA, docB, docC,  \* the parsed documents (heap cells)
  preA, preB, preC,  \* their values when they were parsed
  merged,       \* what deepMerge returned (heap cell)
  diffOut,      \* what generateDiffOutput returned: [lines, text]
  left, right,  \* values of the two groupings of a three-way merge
  mergePc,      \* position of the merge: "off" when no merge runs
  fsMarkers,    \* per directory of the path (by depth): is there a .opencode
  cwd,          \* process.cwd()
  startDir,     \* the startDir argument: [kind, segs]
  foundRoot,    \* what findProjectRoot returned
  resolvedRoot, \* what resolveProjectRoot returned
  indexFile,    \* text of index.json, NoFile when absent
  rcFile,       \* text of .opencode/.omorc, NoFile when absent
  settingsFile, \* text of settings.json, NoFile when absent
  rootGiven,    \* is getEffectiveType called with a project root
  loaded,       \* results of the load calls made so far
  backupsDir,   \* the directory before the sweep: [exists, readdirThrows, files]
  now,          \* Date.now() of the sweep, in seconds
  swept,        \* the sweep: [called, raised, deletedCount, unlinked positions]
  omosFile,     \* slim mode: per scope, the config file [exists, preset, presets]
  omosBackups,  \* slim mode: per scope, the copies createBackup made
  omosCalls,    \* slim mode: the manager calls of the last command, in order
  omosResult,   \* slim mode: how the last command ended
  omosOps       \* slim mode: commands run so far

diskVars == <<index, gConfigs, gBackups, gDirs, schemaCached, userTarget,
              pDirs, pConfigs, pBackups, rc, pTarget>>
vars == <<index, gConfigs, gBackups, gDirs, schemaCached, userTarget,
          pDirs, pConfigs, pBackups, rc, pTarget,
          applyPc, applyLocal, outcome, lastCmd, snap, ops, raced,
          heap, docA, docB, docC, preA, preB, preC, merged, diffOut,
          left, right, mergePc,
          fsMarkers, cwd, startDir, foundRoot, resolvedRoot,
          indexFile, rcFile, settingsFile, rootGiven, loaded,
          backupsDir, now, swept,
          omosFile, omosBackups, omosCalls, omosResult, omosOps>>
sweepVars == <<backupsDir, now, swept>>
omosVars == <<omosFile, omosBackups, omosCalls, omosResult, omosOps>>
laterVars == <<sweepVars, omosVars>>
loadVars == <<indexFile, rcFile, settingsFile, rootGiven, loaded>>
scopeVars == <<fsMarkers, cwd, startDir, foundRoot, resolvedRoot>>
mergeVars == <<heap, docA, docB, docC, preA, preB, preC, merged, diffOut,
               left, right, mergePc>>

\* the persisted state as one record
Disk == [index |-> index, gConfigs |-> gConfigs, gBackups |-> gBackups,
         gDirs |-> gDirs, schemaCached |-> schemaCached,
         userTarget |-> userTarget, pDirs |-> pDirs, pConfigs |-> pConfigs,
         pBackups |-> pBackups, rc |-> rc, pTarget |-> pTarget]

NoConfigs == [i \in Ids |-> [e \in Exts |-> NoFile]]
EmptyIndex == [activeProfileId |-> Null, profiles |-> <<>>]
NoProfile == [id |-> Null, name |-> Null]
NoRc == [exists |-> FALSE, activeProfileId |-> Null, type |-> Null]
\* the rc file after saveRc({ activeProfileId: id }): the object given, whole
RcOnly(id) == [exists |-> TRUE, activeProfileId |-> id, type |-> Null]
\* createBackup returned null
NoPath == [prefix |-> Null, file |-> Null]
NoLocal == [scope |-> Null, identifier |-> Null, profile |-> NoProfile,
            content |-> NoFile, source |-> Null, srcId |-> Null,
            index |-> EmptyIndex, backupPath |-> NoPath]
NoCmd == [cmd |-> "none"]

(***************************************************************************)
(* Store primitives.                                                        *)
(***************************************************************************)
\* getProfileConfigPath: the .jsonc file if present, else .json, else null
\* variant: the strict dialect is looked for first
GetProfileConfigPathJsonFirst(cfgs, id) ==
  IF cfgs[id][".json"] # NoFile THEN ".json"
  ELSE IF cfgs[id][".jsonc"] # NoFile THEN ".jsonc"
  ELSE Null

GetProfileConfigPath(cfgs, id) ==
  IF cfgs[id][".jsonc"] # NoFile THEN ".jsonc"
  ELSE IF cfgs[id][".json"] # NoFile THEN ".json"
  ELSE Null

\* getProfileConfigRaw: content of the resolved file, NoFile when none
GetProfileConfigRaw(cfgs, id) ==
  IF GetProfileConfigPath(cfgs, id) = Null THEN NoFile
  ELSE cfgs[id][GetProfileConfigPath(cfgs, id)]

ConfigExists(cfgs, id) == GetProfileConfigPath(cfgs, id) # Null

\* saveProfileConfigRaw: writes <id><ext> verbatim
SaveProfileConfigRaw(cfgs, id, content, ext) ==
  [cfgs EXCEPT ![id][ext] = content]

\* unlink of the resolved config file of id (deleteProfileConfig)
DeleteProfileConfig(cfgs, id) ==
  IF GetProfileConfigPath(cfgs, id) = Null THEN cfgs
  ELSE [cfgs EXCEPT ![id][GetProfileConfigPath(cfgs, id)] = NoFile]

\* ids of the index entries
IndexIds(idx) == {idx.profiles[i].id : i \in 1..Len(idx.profiles)}

\* stems present in a configs directory, in readdir order
ListProfiles(cfgs) == SelectSeq(IdOrder, LAMBDA i : ConfigExists(cfgs, i))

\* new Date() of the invocation that is starting: invocations are numbered
Clock == ops + 1

\* the entry syncProfiles creates at time t for the config file with stem id
SyncEntry(id, t) == [id |-> id, name |-> id, createdAt |-> t]

\* variant: every config file counts as new, indexed or not
SyncAddedAll(idx, cfgs) == ListProfiles(cfgs)

\* syncProfiles: one minimal entry per config file the index does not name
SyncAdded(idx, cfgs) ==
  SelectSeq(ListProfiles(cfgs), LAMBDA i : i \notin IndexIds(idx))

SyncProfiles(idx, cfgs) ==
  [idx EXCEPT !.profiles =
     @ \o [k \in 1..Len(SyncAdded(idx, cfgs)) |->
             SyncEntry(SyncAdded(idx, cfgs)[k], Clock)]]

\* StoreManager.deleteProfile: config file, index entry, active reference
DeleteProfile(idx, id) ==
  [activeProfileId |-> IF idx.activeProfileId = id THEN Null
                       ELSE idx.activeProfileId,
   profiles |-> SelectSeq(idx.profiles, LAMBDA p : p.id # id)]

\* createBackup: copy of an existing source into the backups directory
CreateBackup(backups, file, content) ==
  IF content = NoFile THEN backups
  ELSE backups \cup {[file |-> file, content |-> content]}

\* variant: a missing source yields a path all the same
CreateBackupPathAlways(file, content) == [prefix |-> "<timestamp>__", file |-> file]

\* createBackup's result: null for a missing source, else the path of the copy,
\* the original file name behind a timestamp prefix
CreateBackupPath(file, content) ==
  IF content = NoFile THEN NoPath
  ELSE [prefix |-> "<timestamp>__", file |-> file]

\* findProjectRoot on the working directory: is there a .opencode marker
FindProjectRoot == pDirs # "none"

(***************************************************************************)
(* Initial state: empty stores, no project directory; a hand-written target *)
(* file may or may not be there.                                            *)
(***************************************************************************)
(***************************************************************************)
(* scope-resolver: the walk from a start directory up to the root.  A       *)
(* directory is the sequence of the segments of its absolute path, the root *)
(* is <<>>; only directories on one path are looked at, so fsMarkers is     *)
(* indexed by depth.                                                        *)
(***************************************************************************)
MaxDepth == 3

\* name of the path segment at a depth
SegName(d) ==
  CASE d = 1 -> "repo" [] d = 2 -> "packages" [] d = 3 -> "app" [] OTHER -> "src"
\* the directory of the path at a depth
DirAt(d) == [i \in 1..d |-> SegName(i)]
\* what <dir>/.opencode is: nothing, a file, or a directory
MarkerKinds == {"none", "file", "dir"}

NoStart == [kind |-> "none", segs |-> <<>>]
\* startDir arguments: omitted, an absolute path, or a path relative to cwd
StartDirs(c) ==
  {NoStart}
    \cup {[kind |-> "abs", segs |-> DirAt(d)] : d \in 0..MaxDepth}
    \cup {[kind |-> "rel", segs |-> <<>>]}
    \cup (IF Len(c) < MaxDepth
          THEN {[kind |-> "rel", segs |-> <<SegName(Len(c) + 1)>>]} ELSE {})

\* path.resolve(startDir)
PathResolve(start, c) == IF start.kind = "abs" THEN start.segs ELSE c \o start.segs
\* startDir ? path.resolve(startDir) : process.cwd()
StartOrCwd(start, c) == IF start.kind # "none" THEN PathResolve(start, c) ELSE c
\* path.dirname
Dirname(dir) == IF Len(dir) = 0 THEN dir ELSE SubSeq(dir, 1, Len(dir) - 1)
\* path.parse(dir).root
RootOf(dir) == <<>>
\* fs.existsSync(opencodeDir) && fs.statSync(opencodeDir).isDirectory()
HasOpencodeDir(markers, dir) ==
  markers[Len(dir)] # "none" /\ markers[Len(dir)] = "dir"

NotFound == [found |-> FALSE, dir |-> <<>>]
Found(dir) == [found |-> TRUE, dir |-> dir]

RECURSIVE WalkUp(_, _, _)
\* variant: the root itself is not looked at
WalkUpBelowRoot(markers, currentDir, root) ==
  IF currentDir # root
  THEN IF HasOpencodeDir(markers, currentDir) THEN Found(currentDir)
       ELSE WalkUp(markers, Dirname(currentDir), root)
  ELSE NotFound

\* the loop of findProjectRoot and the check of the root after it
WalkUp(markers, currentDir, root) ==
  IF currentDir # root
  THEN IF HasOpencodeDir(markers, currentDir) THEN Found(currentDir)
       ELSE WalkUp(markers, Dirname(currentDir), root)
  ELSE IF HasOpencodeDir(markers, root) THEN Found(root)
  ELSE NotFound

\* findProjectRoot(startDir)
FindProjectRootFrom(markers, start, c) ==
  WalkUp(markers, StartOrCwd(start, c), RootOf(StartOrCwd(start, c)))

\* variant: the fallback is the working directory whatever startDir was
ResolveProjectRootCwd(markers, start, c) ==
  IF FindProjectRootFrom(markers, start, c).found
  THEN FindProjectRootFrom(markers, start, c).dir
  ELSE c

\* resolveProjectRoot(startDir)
ResolveProjectRoot(markers, start, c) ==
  IF FindProjectRootFrom(markers, start, c).found
  THEN FindProjectRootFrom(markers, start, c).dir
  ELSE StartOrCwd(start, c)

\* not called yet
NoResult == [called |-> FALSE, found |-> FALSE, dir |-> <<>>]

\* no directory walk is going on
ScopeOff ==
  /\ fsMarkers = [d \in 0..MaxDepth |-> "none"]
  /\ cwd = <<>>
  /\ startDir = NoStart
  /\ foundRoot = NoResult
  /\ resolvedRoot = NoResult

(***************************************************************************)
(* Loading of the persisted state files.  A file is its text; JSON.parse    *)
(* is a table over the texts of the universe, every other text is a syntax  *)
(* error.  A parsed object is a function from its keys to their values.     *)
(***************************************************************************)
STORE_VERSION == "1.0.0"
GarbageText == "invalid json"
EmptyObjectText == "{}"
SettingsSlimText == "{\"activeType\":\"slim\"}"
SettingsOmoText == "{\"activeType\":\"omo\"}"
RcPlainText == "{\"activeProfileId\":null}"
RcSlimText == "{\"activeProfileId\":null,\"type\":\"slim\"}"
RcOmoText == "{\"activeProfileId\":\"dev\",\"type\":\"omo\"}"
IndexEmptyText == "{\"storeVersion\":\"1.0.0\",\"activeProfileId\":null,\"profiles\":[]}"
IndexDevText ==
  "{\"storeVersion\":\"1.0.0\",\"activeProfileId\":\"dev\",\"profiles\":[{\"id\":\"dev\",\"name\":\"Dev\"}]}"

SettingsTexts == {GarbageText, EmptyObjectText, SettingsSlimText, SettingsOmoText}
RcTexts == {GarbageText, RcPlainText, RcSlimText, RcOmoText}
IndexTexts == {GarbageText, IndexEmptyText, IndexDevText}

ParseOk(value) == [ok |-> TRUE, value |-> value]
SyntaxError == [ok |-> FALSE, value |-> <<>>]
\* JSON.parse(text)
JsonParse(text) ==
  CASE text = EmptyObjectText -> ParseOk(<<>>)
    [] text = SettingsSlimText -> ParseOk([activeType |-> "slim"])
    [] text = SettingsOmoText -> ParseOk([activeType |-> "omo"])
    [] text = RcPlainText -> ParseOk([activeProfileId |-> Null])
    [] text = RcSlimText -> ParseOk([activeProfileId |-> Null, type |-> "slim"])
    [] text = RcOmoText -> ParseOk([activeProfileId |-> "dev", type |-> "omo"])
    [] text = IndexEmptyText ->
         ParseOk([storeVersion |-> STORE_VERSION, activeProfileId |-> Null,
                  profiles |-> <<>>])
    [] text = IndexDevText ->
         ParseOk([storeVersion |-> STORE_VERSION, activeProfileId |-> "dev",
                  profiles |-> <<[id |-> "dev", name |-> "Dev"]>>])
    [] OTHER -> SyntaxError

DEFAULT_SETTINGS == [activeType |-> "omo"]
DefaultIndex == [storeVersion |-> STORE_VERSION, activeProfileId |-> Null, profiles |-> <<>>]

\* results of a call: an exception, null, or a value
Raised == [called |-> TRUE, raised |-> TRUE, isNull |-> FALSE, value |-> <<>>]
ReturnedNull == [called |-> TRUE, raised |-> FALSE, isNull |-> TRUE, value |-> <<>>]
Returned(value) == [called |-> TRUE, raised |-> FALSE, isNull |-> FALSE, value |-> value]
NotCalled == [called |-> FALSE, raised |-> FALSE, isNull |-> FALSE, value |-> <<>>]

\* variant: the parse error is not caught
LoadProjectRcNoCatch(file) ==
  IF file = NoFile THEN ReturnedNull
  ELSE IF JsonParse(file).ok THEN Returned(JsonParse(file).value)
  ELSE Raised

\* loadProjectRc: null when .omorc is absent or does not parse
LoadProjectRc(file) ==
  IF file = NoFile THEN ReturnedNull
  ELSE IF JsonParse(file).ok THEN Returned(JsonParse(file).value)
  ELSE ReturnedNull

\* { ...DEFAULT_SETTINGS, ...parsed }
SpreadSettings(parsed) ==
  [activeType |-> IF "activeType" \in DOMAIN parsed THEN parsed.activeType
                  ELSE DEFAULT_SETTINGS.activeType]

\* loadGlobalSettings
LoadGlobalSettings(file) ==
  IF file = NoFile THEN Returned(DEFAULT_SETTINGS)
  ELSE IF JsonParse(file).ok THEN Returned(SpreadSettings(JsonParse(file).value))
  ELSE Returned(DEFAULT_SETTINGS)

\* getActiveConfigType
GetActiveConfigType(file) == LoadGlobalSettings(file).value.activeType

\* SettingsManager.loadSettings
LoadSettings(file) == LoadGlobalSettings(file)

\* StoreManager.loadIndex
LoadIndex(file) ==
  IF file = NoFile THEN Returned(DefaultIndex)
  ELSE IF JsonParse(file).ok THEN Returned(JsonParse(file).value)
  ELSE Returned(DefaultIndex)

\* variant: the global setting is looked at before the project's
GetEffectiveTypeGlobalFirst(given, rcText, settingsText) ==
  LoadSettings(settingsText).value.activeType

\* SettingsManager.getEffectiveType(projectRoot)
GetEffectiveType(given, rcText, settingsText) ==
  IF given /\ ~LoadProjectRc(rcText).isNull
           /\ "type" \in DOMAIN LoadProjectRc(rcText).value
  THEN LoadProjectRc(rcText).value.type
  ELSE LoadSettings(settingsText).value.activeType

NothingLoaded ==
  [index |-> NotCalled, rc |-> NotCalled, globalSettings |-> NotCalled,
   settings |-> NotCalled, type |-> NotCalled]

\* no state file is being loaded
LoadOff ==
  /\ indexFile = NoFile /\ rcFile = NoFile /\ settingsFile = NoFile
  /\ rootGiven = FALSE
  /\ loaded = NothingLoaded

(***************************************************************************)
(* The retention sweep of a backups directory (cleanOldBackups).            *)
(***************************************************************************)
MaxFiles == 3
BACKUP_RETENTION_DAYS == 30
\* retentionMs, in seconds (a day has 24 * 60 * 60 of them)
RetentionS == BACKUP_RETENTION_DAYS * 24 * 60 * 60
\* values of Date.now(), in seconds since the oldest time of the universe
Nows == {RetentionS + 2, RetentionS + 3}
\* an entry of the directory: what statSync and unlinkSync do with it
Entry(isDirectory, mtime, statThrows, unlinkThrows) ==
  [isDirectory |-> isDirectory, mtime |-> mtime, statThrows |-> statThrows,
   unlinkThrows |-> unlinkThrows]
\* the entries a directory can hold at time t: a directory, and files modified
\* a second before, exactly at and a second after t minus the retention time,
\* one that cannot be deleted and one whose metadata cannot be read
EntriesAt(t) ==
  {Entry(TRUE, (t - RetentionS) - 1, FALSE, FALSE),
   Entry(FALSE, (t - RetentionS) - 1, FALSE, FALSE),
   Entry(FALSE, t - RetentionS, FALSE, FALSE),
   Entry(FALSE, (t - RetentionS) + 1, FALSE, FALSE),
   Entry(FALSE, (t - RetentionS) - 1, FALSE, TRUE),
   Entry(FALSE, (t - RetentionS) - 1, TRUE, FALSE)}
\* readdir results of at most MaxFiles entries
Listings(t) == UNION {[1..n -> EntriesAt(t)] : n \in 0..MaxFiles}
NoDir == [exists |-> FALSE, readdirThrows |-> FALSE, files |-> <<>>]
\* the directories of the universe at time t
BackupsDirs(t) ==
  {NoDir}
    \cup {[exists |-> TRUE, readdirThrows |-> TRUE, files |-> <<>>]}
    \cup {[exists |-> TRUE, readdirThrows |-> FALSE, files |-> files] :
            files \in Listings(t)}

\* the count so far and the positions unlinked so far
SweepAcc(deletedCount, unlinked) ==
  [deletedCount |-> deletedCount, unlinked |-> unlinked]

RECURSIVE SweepLoopInclusive(_, _, _, _)
\* variant: a file modified exactly at the cutoff time is deleted too
SweepLoopInclusive(files, i, cutoffTime, acc) ==
  IF i > Len(files) THEN acc
  ELSE IF files[i].statThrows THEN acc
  ELSE IF files[i].isDirectory THEN SweepLoopInclusive(files, i + 1, cutoffTime, acc)
  ELSE IF files[i].mtime <= cutoffTime /\ ~files[i].unlinkThrows
  THEN SweepLoopInclusive(files, i + 1, cutoffTime,
                          SweepAcc(acc.deletedCount + 1, acc.unlinked \cup {i}))
  ELSE SweepLoopInclusive(files, i + 1, cutoffTime, acc)

RECURSIVE SweepLoop(_, _, _, _)
\* the for loop over the entries from position i on, inside the outer try: a
\* throwing statSync leaves the loop for the outer catch, a throwing
\* unlinkSync is caught inside the loop
SweepLoop(files, i, cutoffTime, acc) ==
  IF i > Len(files) THEN acc
  ELSE IF files[i].statThrows THEN acc
  ELSE IF files[i].isDirectory THEN SweepLoop(files, i + 1, cutoffTime, acc)
  ELSE IF files[i].mtime < cutoffTime /\ ~files[i].unlinkThrows
  THEN SweepLoop(files, i + 1, cutoffTime,
                 SweepAcc(acc.deletedCount + 1, acc.unlinked \cup {i}))
  ELSE SweepLoop(files, i + 1, cutoffTime, acc)

\* cleanOldBackups(backupsPath) at time t: every throwing call sits in a try
CleanOldBackups(dir, t) ==
  LET acc == IF ~dir.exists \/ dir.readdirThrows THEN SweepAcc(0, {})
             ELSE SweepLoop(dir.files, 1, t - RetentionS, SweepAcc(0, {}))
  IN [called |-> TRUE, raised |-> FALSE, deletedCount |-> acc.deletedCount,
      unlinked |-> acc.unlinked]

NotSwept == [called |-> FALSE, raised |-> FALSE, deletedCount |-> 0, unlinked |-> {}]
\* no sweep in sight
SweepOff == backupsDir = NoDir /\ now = 0 /\ swept = NotSwept

(***************************************************************************)
(* Slim mode: the presets of an OMOS config file (OmosConfigManager).       *)
(***************************************************************************)
\* names a preset can have: what --name, --id or the file stem give
PresetNames == Identifiers
\* listPresets order
PresetOrder == <<"Dev", "dev", "prod">>
\* preset configurations (opaque)
PresetConfigs == {"preset-1", "preset-2"}
\* a config file that does not exist
NoOmosFile == [exists |-> FALSE, preset |-> Null, presets |-> [n \in PresetNames |-> Null]]

\* getPreset(name): the configuration, Null when the file has no such preset
OmosGetPreset(file, name) == file.presets[name]
\* listPresets()
OmosListPresets(file) == SelectSeq(PresetOrder, LAMBDA n : file.presets[n] # Null)
\* getActivePreset()
OmosGetActivePreset(file) == file.preset
\* addPreset(name, config): writes the file
OmosAddPreset(file, name, config) ==
  [file EXCEPT !.exists = TRUE, !.presets[name] = config]
\* removePreset(name): writes the file
OmosRemovePreset(file, name) == [file EXCEPT !.presets[name] = Null]
\* setActivePreset(name): writes the file
OmosSetActivePreset(file, name) == [file EXCEPT !.exists = TRUE, !.preset = name]
\* createBackup(): a copy of the file as it is, when it exists
OmosCreateBackup(backups, file) == IF file.exists THEN backups \cup {file} ELSE backups
\* a call of a manager method, as the log keeps it
OmosCall(method, scope) == [method |-> method, scope |-> scope]
\* the methods that write the config file
OmosWriters == {"addPreset", "removePreset", "setActivePreset"}

\* slim mode is not in use
OmosOff ==
  /\ omosFile = [scope \in Scopes |-> NoOmosFile]
  /\ omosBackups = [scope \in Scopes |-> {}]
  /\ omosCalls = <<>>
  /\ omosResult = "none"
  /\ omosOps = 0
LaterOff == SweepOff /\ OmosOff

NoDiff == [lines |-> <<>>, text |-> ""]

\* no documents are loaded
MergeOff ==
  /\ heap = <<>>
  /\ docA = JUndef /\ docB = JUndef /\ docC = JUndef
  /\ preA = JUndef /\ preB = JUndef /\ preC = JUndef
  /\ merged = JUndef
  /\ diffOut = NoDiff
  /\ left = JUndef /\ right = JUndef
  /\ mergePc = "off"

StoreInit ==
  /\ index = EmptyIndex
  /\ gConfigs = NoConfigs
  /\ gBackups = {}
  /\ gDirs = FALSE
  /\ schemaCached = FALSE
  /\ userTarget \in {[e \in Exts |-> NoFile],
                     [e \in Exts |-> IF e = ".json" THEN LegacyTarget ELSE NoFile]}
  /\ pDirs = "none"
  /\ pConfigs = NoConfigs
  /\ pBackups = {}
  /\ rc = NoRc
  /\ pTarget = NoFile
  /\ applyPc = "idle"
  /\ applyLocal = NoLocal
  /\ outcome = "none"
  /\ lastCmd = NoCmd
  /\ snap = Disk
  /\ ops = 0
  /\ raced = {}

Init == StoreInit /\ MergeOff /\ ScopeOff /\ LoadOff /\ LaterOff

\* an invocation starts: no other is running, and the budget allows it
Begin ==
  /\ applyPc = "idle"
  /\ ops < MaxOps
  /\ ops' = ops + 1
  /\ snap' = Disk
  /\ raced' = {}
  /\ UNCHANGED <<mergeVars, scopeVars, loadVars, laterVars>>

\* an invocation ends with result r
Finish(r, cmd) ==
  /\ outcome' = r
  /\ lastCmd' = cmd

(***************************************************************************)
(* Helpers of the command handlers.                                         *)
(***************************************************************************)
\* deriveIdFromName on the strings of the universe (all alphanumeric)
DeriveIdFromName(name) == ToLowerCase(name)

\* index.profiles.find(p => p.id === id): position, 0 when absent
FindById(profiles, id) ==
  IF \E i \in 1..Len(profiles) : profiles[i].id = id
  THEN CHOOSE i \in 1..Len(profiles) :
         /\ profiles[i].id = id
         /\ \A j \in 1..(i - 1) : profiles[j].id # id
  ELSE 0

\* the lookup predicate of apply and show
Matches(p, identifier) ==
  p.id = identifier \/ ToLowerCase(p.name) = ToLowerCase(identifier)

\* profiles.find(p => p.id === identifier || lower(p.name) === lower(identifier))
FindProfile(profiles, identifier) ==
  IF \E i \in 1..Len(profiles) : Matches(profiles[i], identifier)
  THEN profiles[CHOOSE i \in 1..Len(profiles) :
         /\ Matches(profiles[i], identifier)
         /\ \A j \in 1..(i - 1) : ~Matches(profiles[j], identifier)]
  ELSE NoProfile

\* projectProfiles.find(id => id === identifier || lower(id) === lower(identifier))
FindProjectProfile(ids, identifier) ==
  IF \E i \in 1..Len(ids) : ids[i] = identifier \/ ToLowerCase(ids[i]) = ToLowerCase(identifier)
  THEN ids[CHOOSE i \in 1..Len(ids) :
         /\ (ids[i] = identifier \/ ToLowerCase(ids[i]) = ToLowerCase(identifier))
         /\ \A j \in 1..(i - 1) :
              ~(ids[j] = identifier \/ ToLowerCase(ids[j]) = ToLowerCase(identifier))]
  ELSE Null

\* the header line apply injects
HeaderComment(name) == "// Profile Name: " \o name \o ", edited by omo-switch"

\* the content apply writes to the target
TargetContent(name, content) == HeaderComment(name) \o "\n" \o content

\* stems of the files given to add
Stems == {"dev"}
\* ids given with --id; the id dev is what the stem and the name derive
IdOptions == {"prod"}

\* can the schema be obtained (download or bundled copy) when it is not cached
SchemaOutcomes == IF schemaCached THEN {TRUE} ELSE BOOLEAN

(***************************************************************************)
(* add (OMO mode).                                                          *)
(***************************************************************************)
\* the id and the name add settles on, from --id, --name and the file stem
AddProfileId(idOpt, nameOpt, stem) ==
  IF idOpt # Null THEN idOpt
  ELSE IF nameOpt # Null THEN DeriveIdFromName(nameOpt)
  ELSE DeriveIdFromName(stem)

AddProfileName(idOpt, nameOpt, stem) ==
  IF nameOpt # Null THEN nameOpt
  ELSE IF idOpt # Null THEN idOpt
  ELSE DeriveIdFromName(stem)

\* variant: add --force drops the entry and pushes a new one
AddToIndexFresh(idx, id, name) ==
  [idx EXCEPT !.profiles =
     Append(SelectSeq(@, LAMBDA p : p.id # id),
            [id |-> id, name |-> name, createdAt |-> Clock])]

\* the index after add's user-scope branch: entry updated in place or pushed
AddToIndex(idx, id, name) ==
  IF FindById(idx.profiles, id) # 0
  THEN [idx EXCEPT !.profiles[FindById(idx.profiles, id)].name = name]
  ELSE [idx EXCEPT !.profiles = Append(@, [id |-> id, name |-> name,
                                           createdAt |-> Clock])]

\* the configs directory after add's user-scope branch
AddToConfigs(cfgs, idx, id, content, ext) ==
  SaveProfileConfigRaw(
    IF FindById(idx.profiles, id) # 0 THEN DeleteProfileConfig(cfgs, id) ELSE cfgs,
    id, content, ext)

\* a successful add, with the file it imported
AddDone(cmd, content, ext) ==
  [cmd |-> "add", id |-> cmd.id, scope |-> cmd.scope, force |-> cmd.force,
   content |-> content, ext |-> ext]

\* user-scope branch of handleOmoAdd, after validation succeeded
AddUser(cmd, id, name, content, ext, force) ==
  /\ UNCHANGED <<pDirs, pConfigs>>
  /\ IF FindById(index.profiles, id) # 0 /\ ~force
     THEN /\ UNCHANGED <<index, gConfigs>>
          /\ Finish("exists", cmd)
     ELSE /\ index' = AddToIndex(index, id, name)
          /\ gConfigs' = AddToConfigs(gConfigs, index, id, content, ext)
          /\ Finish(IF FindById(index.profiles, id) # 0 THEN "updated" ELSE "added",
                    AddDone(cmd, content, ext))

\* project-scope branch of handleOmoAdd, after validation succeeded
AddProject(cmd, id, content, ext, force) ==
  /\ UNCHANGED <<index, gConfigs>>
  /\ pDirs' = "full"
  /\ IF ConfigExists(pConfigs, id) /\ ~force
     THEN /\ UNCHANGED pConfigs
          /\ Finish("exists", cmd)
     ELSE /\ pConfigs' = SaveProfileConfigRaw(
                           IF ConfigExists(pConfigs, id)
                           THEN DeleteProfileConfig(pConfigs, id) ELSE pConfigs,
                           id, content, ext)
          /\ Finish(IF ConfigExists(pConfigs, id) THEN "updated" ELSE "added",
                    AddDone(cmd, content, ext))

\* handleOmoAdd: directories, schema, validation, then the scope's branch
HandleOmoAdd(content, ext, idOpt, nameOpt, stem, force, scope, schemaOk) ==
  LET id == AddProfileId(idOpt, nameOpt, stem)
      name == AddProfileName(idOpt, nameOpt, stem)
      cmd == [cmd |-> "add", id |-> id, scope |-> scope, force |-> force]
  IN
  /\ Begin
  /\ gDirs' = TRUE
  /\ UNCHANGED <<gBackups, userTarget, pBackups, rc, pTarget, applyPc, applyLocal>>
  /\ IF ~schemaCached /\ ~schemaOk
     THEN /\ UNCHANGED <<index, gConfigs, pDirs, pConfigs, schemaCached>>
          /\ Finish("error", cmd)
     ELSE /\ schemaCached' = TRUE
          /\ IF ~Valid(content)
             THEN /\ UNCHANGED <<index, gConfigs, pDirs, pConfigs>>
                  /\ Finish("invalid", cmd)
             ELSE IF scope = "project"
                  THEN AddProject(cmd, id, content, ext, force)
                  ELSE AddUser(cmd, id, name, content, ext, force)

Add ==
  \E content \in Contents, ext \in Exts, idOpt \in IdOptions \cup {Null},
     nameOpt \in Names \cup {Null}, stem \in Stems, force \in BOOLEAN,
     scope \in Scopes, schemaOk \in SchemaOutcomes :
    HandleOmoAdd(content, ext, idOpt, nameOpt, stem, force, scope, schemaOk)

(***************************************************************************)
(* rm (OMO mode).                                                           *)
(***************************************************************************)
\* variant: the project rm handler without the reset of the active reference
RmResetRcKept(r, id) == r

\* the rc record after rm deleted id from the project
RmResetRc(r, id) ==
  IF r.exists /\ r.activeProfileId = id
  THEN RcOnly(Null)
  ELSE r

\* deletion from the project store, with the reset of the active reference
RmProject(cmd, id, confirmed) ==
  /\ UNCHANGED <<index, gConfigs>>
  /\ IF ~confirmed
     THEN /\ UNCHANGED <<pConfigs, rc>>
          /\ Finish("cancelled", cmd)
     ELSE /\ pConfigs' = DeleteProfileConfig(pConfigs, id)
          /\ rc' = RmResetRc(rc, id)
          /\ Finish("deleted", [cmd EXCEPT !.from = "project"])

\* deletion from the global store
RmUser(cmd, id, confirmed) ==
  /\ UNCHANGED <<pConfigs, rc>>
  /\ IF ~confirmed
     THEN /\ UNCHANGED <<index, gConfigs>>
          /\ Finish("cancelled", cmd)
     ELSE /\ gConfigs' = DeleteProfileConfig(gConfigs, id)
          /\ index' = DeleteProfile(index, id)
          /\ Finish("deleted", [cmd EXCEPT !.from = "user"])

RmFail(r, cmd) ==
  /\ UNCHANGED <<index, gConfigs, pConfigs, rc>>
  /\ Finish(r, cmd)

\* handleOmoRm: the scope given, or the project first and then the global store
HandleOmoRm(id, scope, confirmed) ==
  LET cmd == [cmd |-> "rm", id |-> id, scope |-> scope, from |-> Null]
      inIndex == FindById(index.profiles, id) # 0
      inProject == FindProjectRoot /\ ConfigExists(pConfigs, id)
  IN
  /\ Begin
  /\ UNCHANGED <<gBackups, gDirs, schemaCached, userTarget, pDirs, pBackups,
                 pTarget, applyPc, applyLocal>>
  /\ CASE scope = "user" ->
            IF inIndex THEN RmUser(cmd, id, confirmed) ELSE RmFail("not_found", cmd)
       [] scope = "project" ->
            IF ~FindProjectRoot THEN RmFail("no_project", cmd)
            ELSE IF ~ConfigExists(pConfigs, id) THEN RmFail("not_found", cmd)
            ELSE RmProject(cmd, id, confirmed)
       [] OTHER ->
            IF inProject THEN RmProject(cmd, id, confirmed)
            ELSE IF inIndex THEN RmUser(cmd, id, confirmed)
            ELSE RmFail("not_found", cmd)

Rm ==
  \E id \in Ids, scope \in Scopes \cup {Null}, confirmed \in BOOLEAN :
    HandleOmoRm(id, scope, confirmed)

(***************************************************************************)
(* apply (OMO mode), one action per await / file-system effect.             *)
(***************************************************************************)
\* the index apply works on: syncProfiles, then loadIndex
ApplyIndex == SyncProfiles(index, gConfigs)

\* the project profile apply finds (project scope only), Null when none
ApplyProjectProfileId(identifier, scope) ==
  IF scope = "project"
  THEN FindProjectProfile(ListProfiles(pConfigs), identifier)
  ELSE Null

\* the profile object apply ends up with
ApplyProfile(identifier, scope) ==
  IF FindProfile(ApplyIndex.profiles, identifier) # NoProfile
  THEN FindProfile(ApplyIndex.profiles, identifier)
  ELSE IF ApplyProjectProfileId(identifier, scope) # Null
  THEN [id |-> ApplyProjectProfileId(identifier, scope),
        name |-> ApplyProjectProfileId(identifier, scope)]
  ELSE NoProfile

\* the raw content apply ends up with, NoFile when none
ApplyConfigRaw(identifier, scope) ==
  IF ApplyProjectProfileId(identifier, scope) # Null
  THEN GetProfileConfigRaw(pConfigs, ApplyProjectProfileId(identifier, scope))
  ELSE IF ApplyProfile(identifier, scope) # NoProfile
  THEN GetProfileConfigRaw(gConfigs, ApplyProfile(identifier, scope).id)
  ELSE NoFile

\* handleOmoApply up to the await of the schema
ApplyStart(identifier, scope) ==
  LET cmd == [cmd |-> "apply", identifier |-> identifier, scope |-> scope]
      profile == ApplyProfile(identifier, scope)
      raw == ApplyConfigRaw(identifier, scope)
      pid == ApplyProjectProfileId(identifier, scope)
  IN
  /\ Begin
  /\ index' = ApplyIndex
  /\ pDirs' = IF scope = "project" THEN "full" ELSE pDirs
  /\ UNCHANGED <<gConfigs, gBackups, gDirs, schemaCached, userTarget,
                 pConfigs, pBackups, rc, pTarget>>
  /\ IF profile = NoProfile
     THEN /\ UNCHANGED <<applyPc, applyLocal>>
          /\ Finish("not_found", cmd)
     ELSE IF raw = NoFile
     THEN /\ UNCHANGED <<applyPc, applyLocal>>
          /\ Finish("config_missing", cmd)
     ELSE /\ applyPc' = "schema"
          /\ applyLocal' = [scope |-> scope, identifier |-> identifier,
                            profile |-> profile, content |-> raw,
                            source |-> IF pid # Null THEN "project" ELSE "user",
                            srcId |-> IF pid # Null THEN pid ELSE profile.id,
                            index |-> ApplyIndex, backupPath |-> NoPath]
          /\ UNCHANGED <<outcome, lastCmd>>

ApplyCmd == [cmd |-> "apply", identifier |-> applyLocal.identifier,
             scope |-> applyLocal.scope]

\* variant: the target is written before the validation result is looked at
ApplySchemaWritesFirst(schemaOk) ==
  /\ applyPc = "schema"
  /\ UNCHANGED <<index, gConfigs, gBackups, gDirs, pDirs, pConfigs,
                 pBackups, rc, snap, ops, raced, mergeVars, scopeVars, loadVars, laterVars>>
  /\ IF ~schemaCached /\ ~schemaOk
     THEN /\ UNCHANGED <<schemaCached, userTarget, pTarget>>
          /\ applyPc' = "idle"
          /\ applyLocal' = NoLocal
          /\ Finish("error", ApplyCmd)
     ELSE /\ schemaCached' = TRUE
          /\ IF ~Valid(applyLocal.content)
             THEN /\ applyPc' = "idle"
                  /\ applyLocal' = NoLocal
                  /\ userTarget' = [userTarget EXCEPT ![".jsonc"] =
                        TargetContent(applyLocal.profile.name, applyLocal.content)]
                  /\ UNCHANGED pTarget
                  /\ Finish("invalid", ApplyCmd)
             ELSE /\ applyPc' = "backup"
                  /\ UNCHANGED <<applyLocal, outcome, lastCmd, userTarget, pTarget>>

\* ensureSchemaAvailable returns (or throws), then the validation
ApplySchema(schemaOk) ==
  /\ applyPc = "schema"
  /\ UNCHANGED <<index, gConfigs, gBackups, gDirs, userTarget, pDirs, pConfigs,
                 pBackups, rc, pTarget, snap, ops, raced, mergeVars, scopeVars, loadVars, laterVars>>
  /\ IF ~schemaCached /\ ~schemaOk
     THEN /\ UNCHANGED schemaCached
          /\ applyPc' = "idle"
          /\ applyLocal' = NoLocal
          /\ Finish("error", ApplyCmd)
     ELSE /\ schemaCached' = TRUE
          /\ IF ~Valid(applyLocal.content)
             THEN /\ applyPc' = "idle"
                  /\ applyLocal' = NoLocal
                  /\ Finish("invalid", ApplyCmd)
             ELSE /\ applyPc' = "backup"
                  /\ UNCHANGED <<applyLocal, outcome, lastCmd>>

\* the existing user configuration file apply backs up, Null when none
UserBackupSource ==
  IF userTarget[".jsonc"] # NoFile THEN ".jsonc"
  ELSE IF userTarget[".json"] # NoFile THEN ".json"
  ELSE Null

\* backupPath of handleOmoApply
ApplyBackupPath ==
  IF applyLocal.scope = "project"
  THEN CreateBackupPath("oh-my-opencode.jsonc", pTarget)
  ELSE IF UserBackupSource = Null THEN NoPath
  ELSE CreateBackupPath("oh-my-opencode" \o UserBackupSource, userTarget[UserBackupSource])

\* variant: apply goes on to the write without a backup of the user target
ApplyBackupSkipped ==
  /\ applyPc = "backup"
  /\ applyPc' = "write"
  /\ IF applyLocal.scope = "project"
     THEN pBackups' = CreateBackup(pBackups, "oh-my-opencode.jsonc", pTarget)
     ELSE UNCHANGED pBackups
  /\ applyLocal' = [applyLocal EXCEPT !.backupPath = ApplyBackupPath]
  /\ UNCHANGED <<index, gConfigs, gBackups, gDirs, schemaCached, userTarget, pDirs,
                 pConfigs, rc, pTarget, outcome, lastCmd, snap, ops, raced, mergeVars, scopeVars, loadVars, laterVars>>

\* the backup of the existing target
ApplyBackup ==
  /\ applyPc = "backup"
  /\ applyPc' = "write"
  /\ IF applyLocal.scope = "project"
     THEN /\ pBackups' = CreateBackup(pBackups, "oh-my-opencode.jsonc", pTarget)
          /\ UNCHANGED gBackups
     ELSE /\ gBackups' = IF UserBackupSource = Null THEN gBackups
                         ELSE CreateBackup(gBackups, "oh-my-opencode" \o UserBackupSource,
                                           userTarget[UserBackupSource])
          /\ UNCHANGED pBackups
  /\ applyLocal' = [applyLocal EXCEPT !.backupPath = ApplyBackupPath]
  /\ UNCHANGED <<index, gConfigs, gDirs, schemaCached, userTarget, pDirs,
                 pConfigs, rc, pTarget, outcome, lastCmd, snap, ops, raced, mergeVars, scopeVars, loadVars, laterVars>>

\* the write of the target file
ApplyWrite ==
  /\ applyPc = "write"
  /\ applyPc' = "save"
  /\ IF applyLocal.scope = "project"
     THEN /\ pTarget' = TargetContent(applyLocal.profile.name, applyLocal.content)
          /\ UNCHANGED userTarget
     ELSE /\ userTarget' = [userTarget EXCEPT ![".jsonc"] =
                              TargetContent(applyLocal.profile.name, applyLocal.content)]
          /\ UNCHANGED pTarget
  /\ UNCHANGED <<index, gConfigs, gBackups, gDirs, schemaCached, pDirs,
                 pConfigs, pBackups, rc, applyLocal, outcome, lastCmd, snap, ops, raced, mergeVars, scopeVars, loadVars, laterVars>>

\* variant: apply reads the index again right before it saves it
ApplySaveReloads ==
  /\ applyPc = "save"
  /\ applyPc' = "idle"
  /\ IF applyLocal.scope = "project"
     THEN /\ rc' = RcOnly(applyLocal.profile.id)
          /\ UNCHANGED index
     ELSE /\ index' = [index EXCEPT !.activeProfileId = applyLocal.profile.id]
          /\ UNCHANGED rc
  /\ applyLocal' = NoLocal
  /\ Finish("applied", [cmd |-> "apply", identifier |-> applyLocal.identifier,
                        scope |-> applyLocal.scope, profile |-> applyLocal.profile,
                        content |-> applyLocal.content, source |-> applyLocal.source,
                        srcId |-> applyLocal.srcId])
  /\ UNCHANGED <<gConfigs, gBackups, gDirs, schemaCached, userTarget, pDirs,
                 pConfigs, pBackups, pTarget, snap, ops, raced, mergeVars, scopeVars, loadVars, laterVars>>

\* variant: apply records the identifier typed, not the id of the profile found
ApplySaveIdentifier ==
  /\ applyPc = "save"
  /\ applyPc' = "idle"
  /\ IF applyLocal.scope = "project"
     THEN /\ rc' = RcOnly(applyLocal.identifier)
          /\ UNCHANGED index
     ELSE /\ index' = [applyLocal.index EXCEPT !.activeProfileId = applyLocal.identifier]
          /\ UNCHANGED rc
  /\ applyLocal' = NoLocal
  /\ Finish("applied", [cmd |-> "apply", identifier |-> applyLocal.identifier,
                        scope |-> applyLocal.scope, profile |-> applyLocal.profile,
                        content |-> applyLocal.content, source |-> applyLocal.source,
                        srcId |-> applyLocal.srcId])
  /\ UNCHANGED <<gConfigs, gBackups, gDirs, schemaCached, userTarget, pDirs,
                 pConfigs, pBackups, pTarget, snap, ops, raced, mergeVars, scopeVars, loadVars, laterVars>>

\* the update of the scope's active reference
ApplySave ==
  /\ applyPc = "save"
  /\ applyPc' = "idle"
  /\ IF applyLocal.scope = "project"
     THEN /\ rc' = RcOnly(applyLocal.profile.id)
          /\ UNCHANGED index
     ELSE /\ index' = [applyLocal.index EXCEPT !.activeProfileId = applyLocal.profile.id]
          /\ UNCHANGED rc
  /\ applyLocal' = NoLocal
  /\ Finish("applied", [cmd |-> "apply", identifier |-> applyLocal.identifier,
                        scope |-> applyLocal.scope, profile |-> applyLocal.profile,
                        content |-> applyLocal.content, source |-> applyLocal.source,
                        srcId |-> applyLocal.srcId])
  /\ UNCHANGED <<gConfigs, gBackups, gDirs, schemaCached, userTarget, pDirs,
                 pConfigs, pBackups, pTarget, snap, ops, raced, mergeVars, scopeVars, loadVars, laterVars>>

Apply ==
  \/ \E identifier \in Identifiers, scope \in Scopes : ApplyStart(identifier, scope)
  \/ \E schemaOk \in SchemaOutcomes : ApplySchema(schemaOk)
  \/ ApplyBackup
  \/ ApplyWrite
  \/ ApplySave

(***************************************************************************)
(* list (global scope) and a config file copied into a store by hand.       *)
(***************************************************************************)
\* listOmoProfiles, scope user: syncProfiles persists what it discovered
List ==
  /\ Begin
  /\ index' = SyncProfiles(index, gConfigs)
  /\ Finish("listed", [cmd |-> "list"])
  /\ UNCHANGED <<gConfigs, gBackups, gDirs, schemaCached, userTarget, pDirs,
                 pConfigs, pBackups, rc, pTarget, applyPc, applyLocal>>

\* a file put into an existing configs directory outside the tool
ManualCopy ==
  \E id \in Ids, ext \in Exts, content \in Contents, scope \in Scopes :
    /\ Begin
    /\ IF scope = "user"
       THEN /\ gDirs
            /\ gConfigs' = SaveProfileConfigRaw(gConfigs, id, content, ext)
            /\ UNCHANGED pConfigs
       ELSE /\ pDirs = "full"
            /\ pConfigs' = SaveProfileConfigRaw(pConfigs, id, content, ext)
            /\ UNCHANGED gConfigs
    /\ Finish("copied", [cmd |-> "copy"])
    /\ UNCHANGED <<index, gBackups, gDirs, schemaCached, userTarget, pDirs,
                   pBackups, rc, pTarget, applyPc, applyLocal>>

Next == Add \/ Rm \/ Apply \/ List \/ ManualCopy

Spec == Init /\ [][Next]_vars

(***************************************************************************)
(* Two invocations at once: an add of another process runs to completion    *)
(* while an apply waits for the schema or sits between two of its steps.    *)
(***************************************************************************)
\* handleOmoAdd, user scope, run by another process during an apply
ConcurrentAdd ==
  \E content \in Contents, ext \in Exts, id \in Ids, force \in BOOLEAN,
     schemaOk \in SchemaOutcomes :
    LET cmd == [cmd |-> "add", id |-> id, scope |-> "user", force |-> force] IN
    /\ applyPc # "idle"
    /\ ops < MaxOps
    /\ ops' = ops + 1
    /\ gDirs' = TRUE
    /\ UNCHANGED <<gBackups, userTarget, pBackups, rc, pTarget, applyPc, applyLocal,
                   snap, mergeVars, scopeVars, loadVars, laterVars>>
    /\ IF ~schemaCached /\ ~schemaOk
       THEN /\ UNCHANGED <<index, gConfigs, pDirs, pConfigs, schemaCached, raced>>
            /\ Finish("error", cmd)
       ELSE /\ schemaCached' = TRUE
            /\ IF ~Valid(content)
               THEN /\ UNCHANGED <<index, gConfigs, pDirs, pConfigs, raced>>
                    /\ Finish("invalid", cmd)
               ELSE /\ AddUser(cmd, id, id, content, ext, force)
                    /\ raced' = IF FindById(index.profiles, id) = 0
                                THEN raced \cup {id} ELSE raced

\* imports, hand-copied files and applies, one at a time, and the add that
\* slips into an apply
(***************************************************************************)
(* type: the project's type override in the rc record.                      *)
(***************************************************************************)
ConfigTypes == {"omo", "slim"}

\* typeCommand with a type or with --clear-project, in a project
TypeCommand(configType, scope, clearProject) ==
  LET loadedRc == IF rc.exists THEN rc ELSE RcOnly(Null)
      cmd == [cmd |-> "type", scope |-> scope, type |-> configType,
              clearProject |-> clearProject]
  IN
  /\ Begin
  /\ IF clearProject
     THEN IF loadedRc.type = Null
          THEN UNCHANGED <<rc, pDirs>> /\ Finish("nothing", cmd)
          ELSE /\ rc' = [loadedRc EXCEPT !.type = Null]
               /\ UNCHANGED pDirs
               /\ Finish("cleared", cmd)
     ELSE IF scope = "project"
          THEN /\ pDirs' = "full"
               /\ rc' = [loadedRc EXCEPT !.type = configType]
               /\ Finish("set", cmd)
          ELSE UNCHANGED <<rc, pDirs>> /\ Finish("set", cmd)
  /\ UNCHANGED <<index, gConfigs, gBackups, gDirs, schemaCached, userTarget,
                 pConfigs, pBackups, pTarget, applyPc, applyLocal>>

Type ==
  \E configType \in ConfigTypes, scope \in Scopes, clearProject \in BOOLEAN :
    TypeCommand(configType, scope, clearProject)

NextType == Apply \/ Rm \/ ManualCopy \/ Type
SpecType == Init /\ [][NextType]_vars

NextRace == Add \/ Apply \/ ManualCopy \/ ConcurrentAdd
SpecRace == Init /\ [][NextRace]_vars



(***************************************************************************)
(* show --scope merged: the global and the project document are parsed,    *)
(* merged, and the merge is rendered as a diff.                             *)
(***************************************************************************)
storeVars == <<index, gConfigs, gBackups, gDirs, schemaCached, userTarget,
               pDirs, pConfigs, pBackups, rc, pTarget,
               applyPc, applyLocal, outcome, lastCmd, snap, ops, raced>>

InitMerge ==
  /\ StoreInit
  /\ userTarget = [e \in Exts |-> NoFile]
  /\ \E a \in Docs, b \in Docs :
       LET ra == Build(<<>>, a)
           rb == Build(ra.h, b)
       IN /\ heap = rb.h
          /\ docA = ra.c /\ docB = rb.c
          /\ preA = a /\ preB = b
  /\ docC = JUndef /\ preC = JUndef
  /\ merged = JUndef
  /\ diffOut = NoDiff
  /\ left = JUndef /\ right = JUndef
  /\ mergePc = "parsed"
  /\ ScopeOff
  /\ LoadOff
  /\ LaterOff

\* const merged = deepMerge(globalConfig, projectConfig)
ShowMerge ==
  /\ mergePc = "parsed"
  /\ LET r == DeepMerge(heap, docA.v, docB.v)
     IN /\ heap' = r.h
        /\ merged' = r.c
  /\ mergePc' = "merged"
  /\ UNCHANGED <<storeVars, laterVars, scopeVars, loadVars, docA, docB, docC, preA, preB, preC, diffOut, left, right>>

\* const diffOutput = generateDiffOutput(globalConfig, merged, projectConfig)
ShowDiff ==
  /\ mergePc = "merged"
  /\ diffOut' = [lines |-> DiffOutputLines(Val(heap, docA), Val(heap, merged),
                                           Val(heap, docB)),
                 text |-> GenerateDiffOutput(Val(heap, docA), Val(heap, merged),
                                             Val(heap, docB))]
  /\ mergePc' = "diffed"
  /\ UNCHANGED <<storeVars, laterVars, scopeVars, loadVars, heap, docA, docB, docC, preA, preB, preC, merged,
                 left, right>>

NextMerge == ShowMerge \/ ShowDiff

SpecMerge == InitMerge /\ [][NextMerge]_vars

(***************************************************************************)
(* findProjectRoot and resolveProjectRoot called on a directory tree.       *)
(***************************************************************************)
InitScope ==
  /\ StoreInit
  /\ userTarget = [e \in Exts |-> NoFile]
  /\ MergeOff
  /\ fsMarkers \in [0..MaxDepth -> MarkerKinds]
  /\ cwd \in {DirAt(d) : d \in 0..MaxDepth}
  /\ startDir \in StartDirs(cwd)
  /\ foundRoot = NoResult
  /\ resolvedRoot = NoResult
  /\ LoadOff
  /\ LaterOff

CallFindProjectRoot ==
  /\ ~foundRoot.called
  /\ foundRoot' = [called |-> TRUE,
                   found |-> FindProjectRootFrom(fsMarkers, startDir, cwd).found,
                   dir |-> FindProjectRootFrom(fsMarkers, startDir, cwd).dir]
  /\ UNCHANGED <<storeVars, laterVars, mergeVars, loadVars, fsMarkers, cwd, startDir, resolvedRoot>>

CallResolveProjectRoot ==
  /\ ~resolvedRoot.called
  /\ resolvedRoot' = [called |-> TRUE, found |-> TRUE,
                      dir |-> ResolveProjectRoot(fsMarkers, startDir, cwd)]
  /\ UNCHANGED <<storeVars, laterVars, mergeVars, loadVars, fsMarkers, cwd, startDir, foundRoot>>

NextScope == CallFindProjectRoot \/ CallResolveProjectRoot

SpecScope == InitScope /\ [][NextScope]_vars

(***************************************************************************)
(* The load functions called on state files that are absent, broken or      *)
(* well-formed.                                                             *)
(***************************************************************************)
InitLoad ==
  /\ StoreInit
  /\ userTarget = [e \in Exts |-> NoFile]
  /\ MergeOff
  /\ ScopeOff
  /\ indexFile \in IndexTexts \cup {NoFile}
  /\ rcFile \in RcTexts \cup {NoFile}
  /\ settingsFile \in SettingsTexts \cup {NoFile}
  /\ rootGiven \in BOOLEAN
  /\ loaded = NothingLoaded
  /\ LaterOff

LoadFrame == UNCHANGED <<storeVars, laterVars, mergeVars, scopeVars, indexFile, rcFile,
                         settingsFile, rootGiven>>

CallLoadIndex ==
  /\ ~loaded.index.called
  /\ loaded' = [loaded EXCEPT !.index = LoadIndex(indexFile)]
  /\ LoadFrame

CallLoadProjectRc ==
  /\ ~loaded.rc.called
  /\ loaded' = [loaded EXCEPT !.rc = LoadProjectRc(rcFile)]
  /\ LoadFrame

CallLoadGlobalSettings ==
  /\ ~loaded.globalSettings.called
  /\ loaded' = [loaded EXCEPT !.globalSettings = LoadGlobalSettings(settingsFile)]
  /\ LoadFrame

CallLoadSettings ==
  /\ ~loaded.settings.called
  /\ loaded' = [loaded EXCEPT !.settings = LoadSettings(settingsFile)]
  /\ LoadFrame

CallGetEffectiveType ==
  /\ ~loaded.type.called
  /\ loaded' = [loaded EXCEPT !.type =
                  Returned(GetEffectiveType(rootGiven, rcFile, settingsFile))]
  /\ LoadFrame

NextLoad ==
  \/ CallLoadIndex
  \/ CallLoadProjectRc
  \/ CallLoadGlobalSettings
  \/ CallLoadSettings
  \/ CallGetEffectiveType

SpecLoad == InitLoad /\ [][NextLoad]_vars

(***************************************************************************)
(* A sweep of a backups directory.                                          *)
(***************************************************************************)
InitSweep ==
  /\ StoreInit
  /\ userTarget = [e \in Exts |-> NoFile]
  /\ MergeOff /\ ScopeOff /\ LoadOff
  /\ now \in Nows
  /\ backupsDir \in BackupsDirs(now)
  /\ swept = NotSwept
  /\ OmosOff

\* const n = cleanOldBackups(backupsPath)
CallCleanOldBackups ==
  /\ ~swept.called
  /\ swept' = CleanOldBackups(backupsDir, now)
  /\ UNCHANGED <<storeVars, mergeVars, scopeVars, loadVars, omosVars, backupsDir, now>>

NextSweep == CallCleanOldBackups
SpecSweep == InitSweep /\ [][NextSweep]_vars

(***************************************************************************)
(* The commands in slim mode.                                               *)
(***************************************************************************)
\* a command ends: its manager calls, its result, the files it leaves
OmosDone(scope, file, backups, calls, result) ==
  /\ omosFile' = [omosFile EXCEPT ![scope] = file]
  /\ omosBackups' = [omosBackups EXCEPT ![scope] = backups]
  /\ omosCalls' = calls
  /\ omosResult' = result
  /\ omosOps' = omosOps + 1
  /\ UNCHANGED <<storeVars, mergeVars, scopeVars, loadVars, sweepVars>>

\* handleOmosAdd after the preset file was read and parsed
HandleOmosAdd(presetName, presetConfig, valid, scope, force) ==
  LET file == omosFile[scope]
      get == OmosCall("getPreset", scope)
  IN
  IF ~valid
  THEN OmosDone(scope, file, omosBackups[scope], <<>>, "invalid")
  ELSE IF OmosGetPreset(file, presetName) # Null /\ ~force
  THEN OmosDone(scope, file, omosBackups[scope], <<get>>, "exists")
  ELSE OmosDone(scope, OmosAddPreset(file, presetName, presetConfig),
                OmosCreateBackup(omosBackups[scope], file),
                <<get, OmosCall("createBackup", scope), OmosCall("addPreset", scope)>>,
                IF OmosGetPreset(file, presetName) # Null THEN "updated" ELSE "added")

\* the preset handleOmosApply settles on: the identifier itself, else the
\* first preset equal to it letter case aside, else Null
OmosMatch(presets, identifier) ==
  IF \E i \in 1..Len(presets) : presets[i] = identifier THEN identifier
  ELSE IF \E i \in 1..Len(presets) : ToLowerCase(presets[i]) = ToLowerCase(identifier)
  THEN presets[CHOOSE i \in 1..Len(presets) :
         /\ ToLowerCase(presets[i]) = ToLowerCase(identifier)
         /\ \A j \in 1..(i - 1) : ToLowerCase(presets[j]) # ToLowerCase(identifier)]
  ELSE Null

\* handleOmosApply
HandleOmosApply(identifier, scope) ==
  LET file == omosFile[scope]
      list == OmosCall("listPresets", scope)
      matched == OmosMatch(OmosListPresets(file), identifier)
  IN
  IF matched = Null
  THEN OmosDone(scope, file, omosBackups[scope], <<list>>, "not_found")
  ELSE OmosDone(scope, OmosSetActivePreset(file, matched),
                OmosCreateBackup(omosBackups[scope], file),
                <<list, OmosCall("createBackup", scope),
                  OmosCall("setActivePreset", scope)>>,
                "applied")

\* handleOmosRm, the deletion from one scope once the preset was found there
OmosRmFrom(scope, presetName, confirmed) ==
  LET file == omosFile[scope]
      get == OmosCall("getPreset", scope)
      removed == OmosRemovePreset(file, presetName)
  IN
  IF ~confirmed
  THEN OmosDone(scope, file, omosBackups[scope], <<get>>, "cancelled")
  ELSE IF OmosGetActivePreset(removed) = presetName
  THEN OmosDone(scope, OmosSetActivePreset(removed, Null), omosBackups[scope],
                <<get, OmosCall("removePreset", scope),
                  OmosCall("getActivePreset", scope),
                  OmosCall("setActivePreset", scope)>>,
                "deleted")
  ELSE OmosDone(scope, removed, omosBackups[scope],
                <<get, OmosCall("removePreset", scope),
                  OmosCall("getActivePreset", scope)>>,
                "deleted")

\* a handleOmosRm that deletes nothing
OmosRmFail(scope, calls, result) ==
  OmosDone(scope, omosFile[scope], omosBackups[scope], calls, result)

\* handleOmosRm: the scope given, or the project first and then the global file
HandleOmosRm(presetName, scope, confirmed, projectRoot) ==
  LET inUser == OmosGetPreset(omosFile["user"], presetName) # Null
      inProject == OmosGetPreset(omosFile["project"], presetName) # Null
  IN
  CASE scope = "user" ->
         IF inUser THEN OmosRmFrom("user", presetName, confirmed)
         ELSE OmosRmFail("user", <<OmosCall("getPreset", "user")>>, "not_found")
    [] scope = "project" ->
         IF ~projectRoot THEN OmosRmFail("project", <<>>, "no_project")
         ELSE IF inProject THEN OmosRmFrom("project", presetName, confirmed)
         ELSE OmosRmFail("project", <<OmosCall("getPreset", "project")>>, "not_found")
    [] OTHER ->
         IF projectRoot /\ inProject THEN OmosRmFrom("project", presetName, confirmed)
         ELSE IF inUser THEN OmosRmFrom("user", presetName, confirmed)
         ELSE OmosRmFail("user", <<OmosCall("getPreset", "user")>>, "not_found")

OmosAdd ==
  \E presetName \in PresetNames, presetConfig \in PresetConfigs, valid \in BOOLEAN,
     scope \in Scopes, force \in BOOLEAN :
    omosOps < MaxOps /\ HandleOmosAdd(presetName, presetConfig, valid, scope, force)

OmosApply ==
  \E identifier \in Identifiers, scope \in Scopes :
    omosOps < MaxOps /\ HandleOmosApply(identifier, scope)

OmosRm ==
  \E presetName \in PresetNames, scope \in Scopes \cup {Null}, confirmed \in BOOLEAN,
     projectRoot \in BOOLEAN :
    omosOps < MaxOps /\ HandleOmosRm(presetName, scope, confirmed, projectRoot)

InitOmos ==
  /\ StoreInit
  /\ userTarget = [e \in Exts |-> NoFile]
  /\ MergeOff /\ ScopeOff /\ LoadOff /\ SweepOff
  /\ OmosOff

NextOmos == OmosAdd \/ OmosApply \/ OmosRm
SpecOmos == InitOmos /\ [][NextOmos]_vars

(***************************************************************************)
(* deepMerge applied twice to three documents, in both groupings.           *)
(***************************************************************************)
InitAssoc ==
  /\ StoreInit
  /\ userTarget = [e \in Exts |-> NoFile]
  /\ \E a \in AssocDocs, b \in AssocDocs, c \in AssocDocs :
       LET ra == Build(<<>>, a)
           rb == Build(ra.h, b)
           rc3 == Build(rb.h, c)
       IN /\ heap = rc3.h
          /\ docA = ra.c /\ docB = rb.c /\ docC = rc3.c
          /\ preA = a /\ preB = b /\ preC = c
  /\ merged = JUndef
  /\ diffOut = NoDiff
  /\ left = JUndef /\ right = JUndef
  /\ mergePc = "parsed"
  /\ ScopeOff
  /\ LoadOff
  /\ LaterOff

\* deepMerge(deepMerge(A, B), C)
MergeLeft ==
  /\ mergePc = "parsed"
  /\ left = JUndef
  /\ LET r1 == DeepMerge(heap, docA.v, docB.v)
         r2 == DeepMerge(r1.h, r1.c.v, docC.v)
     IN /\ heap' = r2.h
        /\ left' = Val(r2.h, r2.c)
  /\ UNCHANGED <<storeVars, laterVars, scopeVars, loadVars, docA, docB, docC, preA, preB, preC, merged, diffOut,
                 right, mergePc>>

\* deepMerge(A, deepMerge(B, C))
MergeRight ==
  /\ mergePc = "parsed"
  /\ right = JUndef
  /\ LET r1 == DeepMerge(heap, docB.v, docC.v)
         r2 == DeepMerge(r1.h, docA.v, r1.c.v)
     IN /\ heap' = r2.h
        /\ right' = Val(r2.h, r2.c)
  /\ UNCHANGED <<storeVars, laterVars, scopeVars, loadVars, docA, docB, docC, preA, preB, preC, merged, diffOut,
                 left, mergePc>>

NextAssoc == MergeLeft \/ MergeRight

SpecAssoc == InitAssoc /\ [][NextAssoc]_vars

(***************************************************************************)
(* Properties of the command handlers.                                      *)
(***************************************************************************)
\* the invocation recorded in lastCmd has finished and no other has started
Settled == applyPc = "idle"

\* C1: after rm deleted the active profile of a scope, that scope's active
\* reference is null; after rm deleted another profile, the active reference
\* is what it was before the rm.
C1_RmClearsActive ==
  (Settled /\ outcome = "deleted") =>
    /\ lastCmd.from = "user" =>
         /\ index.activeProfileId =
              IF snap.index.activeProfileId = lastCmd.id THEN Null
              ELSE snap.index.activeProfileId
         /\ rc = snap.rc
    /\ lastCmd.from = "project" =>
         /\ rc.activeProfileId =
              IF snap.rc.activeProfileId = lastCmd.id THEN Null
              ELSE snap.rc.activeProfileId
         /\ index = snap.index

\* rm has deleted the active profile of the project
C1_Witness ==
  /\ Settled /\ outcome = "deleted" /\ lastCmd.from = "project"
  /\ snap.rc.activeProfileId = lastCmd.id

\* the existing file the apply in progress has to back up: [file, content]
ExistingTarget(scope, user, project) ==
  IF scope = "project"
  THEN [file |-> "oh-my-opencode.jsonc", content |-> project]
  ELSE IF user[".jsonc"] # NoFile
  THEN [file |-> "oh-my-opencode.jsonc", content |-> user[".jsonc"]]
  ELSE [file |-> "oh-my-opencode.json", content |-> user[".json"]]

BackupsOf(scope) == IF scope = "project" THEN pBackups ELSE gBackups

\* C2: when apply is about to write the target, and after it has succeeded,
\* a backup holding the content the existing configuration file had before
\* the apply is in the scope's backups directory.
C2_BackupBeforeWrite ==
  /\ applyPc = "write" =>
       (ExistingTarget(applyLocal.scope, userTarget, pTarget).content # NoFile =>
          ExistingTarget(applyLocal.scope, userTarget, pTarget)
            \in BackupsOf(applyLocal.scope))
  /\ (Settled /\ outcome = "applied") =>
       (ExistingTarget(lastCmd.scope, snap.userTarget, snap.pTarget).content # NoFile =>
          ExistingTarget(lastCmd.scope, snap.userTarget, snap.pTarget)
            \in BackupsOf(lastCmd.scope))

\* a user-scope apply has overwritten a target file that existed
C2_Witness ==
  /\ Settled /\ outcome = "applied" /\ lastCmd.scope = "user"
  /\ snap.userTarget[".jsonc"] # NoFile

\* name of the profile the applied content was read from
SourceName(cmd) ==
  IF cmd.source = "project" THEN cmd.srcId
  ELSE index.profiles[FindById(index.profiles, cmd.srcId)].name

\* C3: after a successful apply the target holds the header line naming the
\* profile whose stored content was written, a newline and that content, and
\* the active reference of the chosen scope is that profile's id.
C3_ApplyWritesProfile ==
  (Settled /\ outcome = "applied") =>
    /\ (IF lastCmd.scope = "project" THEN pTarget ELSE userTarget[".jsonc"])
         = TargetContent(SourceName(lastCmd), lastCmd.content)
    /\ lastCmd.content =
         GetProfileConfigRaw(IF lastCmd.source = "project" THEN pConfigs ELSE gConfigs,
                             lastCmd.srcId)
    /\ (IF lastCmd.scope = "project" THEN rc.activeProfileId
        ELSE index.activeProfileId) = lastCmd.srcId

\* C4 as stated: an invocation that failed validation wrote nothing at all
C4_NoWriteAtAll ==
  (Settled /\ outcome = "invalid") => Disk = snap

\* C4: an add or apply that failed validation has written no profile config,
\* target file, backup or rc record, and has changed neither the index's
\* active reference nor an index entry that existed; only directories, the
\* schema cache and (apply) index entries found by syncProfiles may be new.
C4_NoStoreWrite ==
  (Settled /\ outcome = "invalid") =>
    /\ gConfigs = snap.gConfigs /\ pConfigs = snap.pConfigs
    /\ userTarget = snap.userTarget /\ pTarget = snap.pTarget
    /\ gBackups = snap.gBackups /\ pBackups = snap.pBackups
    /\ rc = snap.rc
    /\ index.activeProfileId = snap.index.activeProfileId
    /\ Len(index.profiles) >= Len(snap.index.profiles)
    /\ SubSeq(index.profiles, 1, Len(snap.index.profiles)) = snap.index.profiles
    /\ lastCmd.cmd = "add" => index = snap.index

\* an apply was rejected by the validation after syncProfiles wrote the index
C4_Witness ==
  /\ Settled /\ outcome = "invalid" /\ lastCmd.cmd = "apply"
  /\ index # snap.index


(***************************************************************************)
(* Properties of deepMerge and of the diff it is rendered as.               *)
(***************************************************************************)
MergeDone == mergePc \in {"merged", "diffed"}

RECURSIVE Reach(_, _)
\* the addresses of the objects and arrays a heap cell leads to
Reach(h, c) ==
  IF c.t # "ref" THEN {}
  ELSE {c.v} \cup UNION {Reach(h, IF h[c.v].t = "arr" THEN h[c.v].v[i] ELSE h[c.v].v[i].c) :
                          i \in 1..Len(h[c.v].v)}

\* C5: after deepMerge(A, B) returned, A and B hold the keys and values they
\* held before the call at every nesting level, and the returned document is
\* a new one that shares no object or array with A or B.
C5_MergeDoesNotMutate ==
  MergeDone =>
    /\ Val(heap, docA) = preA
    /\ Val(heap, docB) = preB
    /\ Reach(heap, merged) \cap (Reach(heap, docA) \cup Reach(heap, docB)) = {}

\* both documents hold a nested document under the same key, and one holds an array
C5_Witness ==
  /\ MergeDone
  /\ GetProp(preA, "a").t = "obj" /\ Len(GetProp(preA, "a").v) > 0
  /\ GetProp(preB, "a").t = "obj" /\ Len(GetProp(preB, "a").v) > 0
  /\ HasOwn(preA, "toString") /\ GetProp(preA, "toString").t = "arr"
  /\ Len(Val(heap, merged).v) > 0

RECURSIVE OverrideWins(_, _, _)
OverrideWins(base, override, result) ==
  \A key \in KeySet(base) \cap KeySet(override) :
    IF GetProp(base, key).t = "obj" /\ GetProp(override, key).t = "obj"
    THEN /\ HasOwn(result, key)
         /\ GetProp(result, key).t = "obj"
         /\ OverrideWins(GetProp(base, key), GetProp(override, key), GetProp(result, key))
    ELSE /\ HasOwn(result, key)
         /\ GetProp(result, key) = GetProp(override, key)

\* C6: at every key that base and override both hold, with a value on at least
\* one side that is not a plain document, the result of deepMerge holds exactly
\* override's value: an array is replaced whole, a null or a scalar replaces a
\* document (checked at every nesting level the merge descends into).
C6_OverrideWins ==
  MergeDone => OverrideWins(preA, preB, Val(heap, merged))

\* an array replaced an array
C6_Witness ==
  /\ MergeDone
  /\ HasOwn(preA, "a") /\ GetProp(preA, "a") = JArr(<<JStr("a"), JStr("b")>>)
  /\ HasOwn(preB, "a") /\ GetProp(preB, "a") = JArr(<<JStr("c")>>)
  /\ GetProp(Val(heap, merged), "a") = JArr(<<JStr("c")>>)

RECURSIVE MergeLaw(_, _, _)
MergeLaw(base, override, result) ==
  /\ KeySet(result) = KeySet(base) \cup KeySet(override)
  /\ \A key \in KeySet(result) :
       IF ~HasOwn(override, key)
       THEN DeepEqual(GetProp(result, key), GetProp(base, key))
       ELSE IF ~HasOwn(base, key)
       THEN DeepEqual(GetProp(result, key), GetProp(override, key))
       ELSE (GetProp(base, key).t = "obj" /\ GetProp(override, key).t = "obj") =>
              /\ GetProp(result, key).t = "obj"
              /\ MergeLaw(GetProp(base, key), GetProp(override, key),
                          GetProp(result, key))

\* C7: the keys of deepMerge(base, override) are the keys of base together with
\* the keys of override; a key only base holds keeps base's value, a key only
\* override holds takes override's value, and a key that holds a plain document
\* on both sides holds the merge of the two, at every depth.
C7_MergeKeys ==
  MergeDone => MergeLaw(preA, preB, Val(heap, merged))

\* C8: deepMerge(A, {}) is deep-equal to A and deepMerge({}, B) is deep-equal
\* to B, for every document A and B.
C8_EmptyIdentity ==
  MergeDone =>
    /\ preB = EmptyDoc => DeepEqual(Val(heap, merged), preA)
    /\ preA = EmptyDoc => DeepEqual(Val(heap, merged), preB)

BothGroupings == left # JUndef /\ right # JUndef

RECURSIVE NoInheritedKey(_)
NoInheritedKey(val) ==
  val.t = "obj" =>
    \A i \in 1..Len(val.v) : val.v[i].k \notin ProtoKeys /\ NoInheritedKey(val.v[i].c)

RECURSIVE NoScalarBetween(_, _, _)
NoScalarBetween(a, b, c) ==
  \A key \in KeySet(a) \cap KeySet(c) :
    (GetProp(a, key).t = "obj" /\ GetProp(c, key).t = "obj" /\ HasOwn(b, key)) =>
      /\ GetProp(b, key).t = "obj"
      /\ NoScalarBetween(GetProp(a, key), GetProp(b, key), GetProp(c, key))

C10_ModifiedLines ==
  mergePc = "diffed" =>
    \A key \in KeySet(preA) \cap KeySet(preB) :
      (/\ GetProp(preA, key).t # "obj"
       /\ GetProp(preB, key).t # "obj"
       /\ ~DeepEqual(GetProp(preA, key), GetProp(preB, key)))
      => \E i \in 1..(Len(diffOut.lines) - 1) :
           /\ diffOut.lines[i] = "  - \"" \o key \o "\": "
                                   \o FormatJsonValue(GetProp(preA, key), 1)
                                   \o " // [global]"
           /\ diffOut.lines[i + 1] \in
                {"  + \"" \o key \o "\": " \o FormatJsonValue(GetProp(preB, key), 1)
                   \o comma \o " // [project]" : comma \in {"", ","}}

\* base {a: 1}, overrides {a: 2}: the two lines of the modified key
C10_Witness ==
  /\ mergePc = "diffed"
  /\ preA = JObj(<<Prop("a", JNum(1))>>)
  /\ preB = JObj(<<Prop("a", JNum(2))>>)
  /\ diffOut.lines[4] = "  - \"a\": 1 // [global]"
  /\ diffOut.lines[5] = "  + \"a\": 2 // [project]"
  /\ Len(diffOut.lines) = 6


\* the line formatDiffLines pushes for an unchanged key: no marker, no annotation
UnmarkedLine(doc, keys, i) ==
  "  \"" \o keys[i] \o "\": " \o FormatJsonValue(GetProp(doc, keys[i]), 1)
    \o (IF i = Len(keys) THEN "" ELSE ",")

\* C11: the diff of a document against itself (base = D, overrides = D, merged
\* = deepMerge(D, D)) has no '+' or '-' line and no // [project] or // [global]
\* annotation: between the header and the closing brace it holds exactly one
\* unmarked line per key of D.
C11_IdenticalUnmarked ==
  (mergePc = "diffed" /\ preA = preB) =>
    LET keys == SortedKeys(KeySet(preA))
    IN /\ Len(diffOut.lines) = Len(keys) + 4
       /\ \A i \in 1..Len(keys) : diffOut.lines[i + 3] = UnmarkedLine(preA, keys, i)


(***************************************************************************)
(* Properties of the stores' primitives.                                    *)
(***************************************************************************)
\* the file of id a reader has to pick in a configs directory: [ext, content]
Preferred(cfgs, id) ==
  CASE cfgs[id][".jsonc"] # NoFile -> [ext |-> ".jsonc", content |-> cfgs[id][".jsonc"]]
    [] cfgs[id][".jsonc"] = NoFile /\ cfgs[id][".json"] # NoFile ->
         [ext |-> ".json", content |-> cfgs[id][".json"]]
    [] OTHER -> [ext |-> Null, content |-> NoFile]

\* C12: in the global and in the project store, getProfileConfigPath(id) is
\* the path of <id>.jsonc when that file exists, else of <id>.json when that
\* exists, else null; getProfileConfigRaw and configExists resolve the same
\* file, and so does an apply that reads a profile's content.
C12_PrefersJsonc ==
  /\ \A id \in Ids :
       /\ GetProfileConfigPath(gConfigs, id) = Preferred(gConfigs, id).ext
       /\ GetProfileConfigPath(pConfigs, id) = Preferred(pConfigs, id).ext
       /\ GetProfileConfigRaw(gConfigs, id) = Preferred(gConfigs, id).content
       /\ GetProfileConfigRaw(pConfigs, id) = Preferred(pConfigs, id).content
       /\ ConfigExists(pConfigs, id) <=> (\E e \in Exts : pConfigs[id][e] # NoFile)
  /\ (Settled /\ outcome = "applied") =>
       lastCmd.content =
         Preferred(IF lastCmd.source = "project" THEN snap.pConfigs ELSE snap.gConfigs,
                   lastCmd.srcId).content

\* apply read a profile that has a file in both dialects, with different content
C12_Witness ==
  /\ Settled /\ outcome = "applied" /\ lastCmd.source = "user"
  /\ gConfigs[lastCmd.srcId][".jsonc"] # NoFile
  /\ gConfigs[lastCmd.srcId][".json"] # NoFile
  /\ gConfigs[lastCmd.srcId][".json"] # gConfigs[lastCmd.srcId][".jsonc"]
  /\ lastCmd.content = gConfigs[lastCmd.srcId][".jsonc"]


AddSucceeded == Settled /\ outcome \in {"added", "updated"}

\* the configs directory of the scope the last command worked on
ConfigsOf(scope) == IF scope = "project" THEN pConfigs ELSE gConfigs

\* C13: after a successful add of a file under id X in a scope (new id, or
\* --force on an existing one), getProfileConfigRaw(X) in that scope returns
\* the file's content, also when a file for X in the other dialect was in the
\* configs directory before.
C13_AddRoundTrip ==
  AddSucceeded =>
    GetProfileConfigRaw(ConfigsOf(lastCmd.scope), lastCmd.id) = lastCmd.content


\* stems of the config files of a directory that an index does not name
Unindexed(idx, cfgs) ==
  {id \in Ids : (\E e \in Exts : cfgs[id][e] # NoFile)
                  /\ \A i \in 1..Len(idx.profiles) : idx.profiles[i].id # id}

\* C14: a syncProfiles run right after another, with no file changed in
\* between, reports added = [] and leaves the index as it is; a run that finds
\* config files the index does not name appends exactly one entry for each,
\* id and name being the file stem, and the index holds them afterwards.
C14_SyncIdempotent ==
  /\ SyncAdded(SyncProfiles(index, gConfigs), gConfigs) = <<>>
  /\ SyncProfiles(SyncProfiles(index, gConfigs), gConfigs) = SyncProfiles(index, gConfigs)
  /\ (Settled /\ outcome = "listed") =>
       /\ Unindexed(index, gConfigs) = {}
       /\ Len(index.profiles)
            = Len(snap.index.profiles) + Cardinality(Unindexed(snap.index, snap.gConfigs))
       /\ SubSeq(index.profiles, 1, Len(snap.index.profiles)) = snap.index.profiles
       /\ \A id \in Unindexed(snap.index, snap.gConfigs) :
            \E i \in (Len(snap.index.profiles) + 1)..Len(index.profiles) :
              index.profiles[i] = SyncEntry(id, ops)
       /\ index.activeProfileId = snap.index.activeProfileId

\* list ran syncProfiles on a store with a config file the index did not name
C14_Witness ==
  /\ Settled /\ outcome = "listed"
  /\ Unindexed(snap.index, snap.gConfigs) # {}
  /\ Len(index.profiles) > Len(snap.index.profiles)


\* C15: createBackup on a source that does not exist returns null and copies
\* nothing; on an existing source it puts a copy of the file into the scope's
\* backups directory under a name that ends in the original file name and
\* returns that path.  (Checked where apply has just called it.)
C15_CreateBackup ==
  applyPc = "write" =>
    LET target == ExistingTarget(applyLocal.scope, userTarget, pTarget)
        before == IF applyLocal.scope = "project" THEN snap.pBackups ELSE snap.gBackups
    IN IF target.content = NoFile
       THEN /\ applyLocal.backupPath = NoPath
            /\ BackupsOf(applyLocal.scope) = before
       ELSE /\ applyLocal.backupPath.file = target.file
            /\ applyLocal.backupPath.prefix # Null
            /\ BackupsOf(applyLocal.scope) = before \cup {target}
            /\ \E b \in BackupsOf(applyLocal.scope) :
                 b.file = applyLocal.backupPath.file /\ b.content = target.content

\* apply --scope project called createBackup on a target that does not exist
C15_Witness ==
  /\ applyPc = "write" /\ applyLocal.scope = "project"
  /\ pTarget = NoFile
  /\ applyLocal.backupPath = NoPath /\ pBackups = {}


(***************************************************************************)
(* Properties of the scope resolver.                                        *)
(***************************************************************************)
\* depths of the directories from the start directory up to the root that
\* directly contain a directory named .opencode
MarkedDepths == {d \in 0..Len(StartOrCwd(startDir, cwd)) : fsMarkers[d] = "dir"}

\* C16: findProjectRoot(start) returns the nearest directory on the path from
\* start up to and including the root that directly contains a directory
\* named .opencode, and null exactly when no directory on that path has one.
C16_NearestMarker ==
  foundRoot.called =>
    /\ foundRoot.found <=> MarkedDepths # {}
    /\ foundRoot.found =>
         /\ Len(foundRoot.dir) \in MarkedDepths
         /\ \A d \in MarkedDepths : d <= Len(foundRoot.dir)
         /\ foundRoot.dir = SubSeq(StartOrCwd(startDir, cwd), 1, Len(foundRoot.dir))

\* the marker is in the root only, below it a file named .opencode is passed over
C16_Witness ==
  /\ foundRoot.called /\ foundRoot.found /\ foundRoot.dir = <<>>
  /\ Len(StartOrCwd(startDir, cwd)) >= 2
  /\ fsMarkers[1] = "file"

Broken(file) == file \in {NoFile, GarbageText}

\* C18: loading a state file that is absent or does not parse raises nothing
\* and yields the default: loadIndex the empty index, loadProjectRc null,
\* loadGlobalSettings and SettingsManager.loadSettings the default settings
\* with activeType omo.
C18_BrokenFileDefaults ==
  /\ \A f \in {"index", "rc", "globalSettings", "settings"} : ~loaded[f].raised
  /\ (loaded.index.called /\ Broken(indexFile)) =>
       /\ ~loaded.index.isNull
       /\ loaded.index.value.storeVersion = "1.0.0"
       /\ loaded.index.value.activeProfileId = Null
       /\ loaded.index.value.profiles = <<>>
  /\ (loaded.rc.called /\ Broken(rcFile)) => loaded.rc.isNull
  /\ (loaded.globalSettings.called /\ Broken(settingsFile)) =>
       /\ ~loaded.globalSettings.isNull
       /\ loaded.globalSettings.value.activeType = "omo"
  /\ (loaded.settings.called /\ Broken(settingsFile)) =>
       /\ ~loaded.settings.isNull
       /\ loaded.settings.value.activeType = "omo"

\* all four loaders ran on files that do not parse
C18_Witness ==
  /\ indexFile = GarbageText /\ rcFile = GarbageText /\ settingsFile = GarbageText
  /\ loaded.index.called /\ loaded.rc.called
  /\ loaded.globalSettings.called /\ loaded.settings.called
  /\ loaded.rc.isNull

\* the type a project rc text carries, Null when it has none
RcTypeIn(text) ==
  CASE text = RcSlimText -> "slim" [] text = RcOmoText -> "omo" [] OTHER -> Null
\* the activeType a settings text carries, Null when it has none
ActiveTypeIn(text) ==
  CASE text = SettingsSlimText -> "slim" [] text = SettingsOmoText -> "omo"
    [] OTHER -> Null

\* C20: getEffectiveType(projectRoot) is the type of the project's rc when a
\* project root is given and the rc has one, else the activeType of the global
\* settings, else omo; without a project root the rc plays no part.
C20_EffectiveType ==
  loaded.type.called =>
    loaded.type.value =
      IF rootGiven /\ RcTypeIn(rcFile) # Null THEN RcTypeIn(rcFile)
      ELSE IF ActiveTypeIn(settingsFile) # Null THEN ActiveTypeIn(settingsFile)
      ELSE "omo"

\* the project says slim, the global settings say omo
C20_Witness ==
  /\ loaded.type.called /\ rootGiven
  /\ rcFile = RcSlimText /\ settingsFile = SettingsOmoText
  /\ loaded.type.value = "slim"

(***************************************************************************)
(* Properties of the profile lookup.                                        *)
(***************************************************************************)
\* some profile of the list has this id
IdMatch(profiles, identifier) ==
  \E i \in 1..Len(profiles) : profiles[i].id = identifier
\* some profile of the list has this name, letter case aside
NameMatch(profiles, identifier) ==
  \E i \in 1..Len(profiles) :
    ToLowerCase(profiles[i].name) = ToLowerCase(identifier)
\* a user-scope apply has looked its profile up and found one
ApplyLookedUp == applyPc # "idle" /\ applyLocal.scope = "user"

\* C19: the user-scope lookup of apply returns the profile whose id equals the
\* identifier when the index has one, otherwise a profile whose name equals
\* it case-insensitively, and reports not-found only when the index has
\* neither.
C19_IdPrimary ==
  /\ ApplyLookedUp =>
       IF IdMatch(applyLocal.index.profiles, applyLocal.identifier)
       THEN applyLocal.profile.id = applyLocal.identifier
       ELSE /\ NameMatch(applyLocal.index.profiles, applyLocal.identifier)
            /\ ToLowerCase(applyLocal.profile.name)
                 = ToLowerCase(applyLocal.identifier)
  /\ (Settled /\ lastCmd.cmd = "apply" /\ lastCmd.scope = "user"
        /\ outcome = "not_found") =>
       /\ ~IdMatch(index.profiles, lastCmd.identifier)
       /\ ~NameMatch(index.profiles, lastCmd.identifier)

(***************************************************************************)
(* Properties of two invocations at once.                                   *)
(***************************************************************************)
\* a user-scope apply has just saved the index
ApplySaved ==
  Settled /\ outcome = "applied" /\ lastCmd.cmd = "apply" /\ lastCmd.scope = "user"

\* C21: when another invocation's add saved a new entry to the index between
\* apply's loadIndex and apply's saveIndex, apply saves its stale copy: the
\* profiles are those apply loaded, the added entry is gone from the index,
\* and the added config file is still on disk.
C21_LostUpdate ==
  (ApplySaved /\ raced # {}) =>
    /\ \E t \in 1..ops :
         index.profiles =
           snap.index.profiles
             \o [k \in 1..Len(SyncAdded(snap.index, snap.gConfigs)) |->
                   SyncEntry(SyncAdded(snap.index, snap.gConfigs)[k], t)]
    /\ \A id \in raced :
         /\ FindById(index.profiles, id) = 0
         /\ ConfigExists(gConfigs, id)

\* an apply finished after an add of another process slipped in
C21_Witness ==
  /\ ApplySaved /\ raced # {}
  /\ \E id \in raced : FindById(index.profiles, id) = 0 /\ ConfigExists(gConfigs, id)

(***************************************************************************)
(* Properties of the index.                                                 *)
(***************************************************************************)
\* C22: with one invocation at a time from an empty store, the index's
\* activeProfileId is null or the id of a profile of index.profiles.
C22_ActiveExists ==
  index.activeProfileId = Null \/ FindById(index.profiles, index.activeProfileId) # 0

\* a profile found by its name was applied: the active id is the profile's
\* id, not the identifier typed
C22_Witness ==
  /\ ApplySaved
  /\ lastCmd.identifier # lastCmd.profile.id
  /\ index.activeProfileId = lastCmd.profile.id
  /\ FindById(index.profiles, index.activeProfileId) # 0

(***************************************************************************)
(* Properties of the classification of the diff.                            *)
(***************************************************************************)
\* what collectDiffLines passes down as project for a nested level
NestedProject(project, key) ==
  IF GetProp(project, key).t = "obj" THEN GetProp(project, key) ELSE EmptyDoc

RECURSIVE NestedChange(_, _, _)
\* some key of this level, or of a level below it, is classified added or
\* modified
NestedChange(global, result, project) ==
  LET lines == CollectDiffLines(global, result, project, "")
  IN \E i \in 1..Len(lines) :
       \/ lines[i].type \in {"added", "modified"}
       \/ /\ GetProp(global, lines[i].key).t = "obj"
          /\ GetProp(result, lines[i].key).t = "obj"
          /\ NestedChange(GetProp(global, lines[i].key), GetProp(result, lines[i].key),
                          NestedProject(project, lines[i].key))

\* C23: a key at which base and merged both hold documents is classified
\* modified exactly when some key nested under it, at any depth, is classified
\* added or modified, and unchanged otherwise, also when overrides holds the
\* key.
C23_NestedClassified ==
  mergePc = "diffed" =>
    LET global == Val(heap, docA)
        result == Val(heap, merged)
        project == Val(heap, docB)
        lines == CollectDiffLines(global, result, project, "")
    IN \A i \in 1..Len(lines) :
         (GetProp(global, lines[i].key).t = "obj"
            /\ GetProp(result, lines[i].key).t = "obj")
         => lines[i].type =
              IF NestedChange(GetProp(global, lines[i].key),
                              GetProp(result, lines[i].key),
                              NestedProject(project, lines[i].key))
              THEN "modified" ELSE "unchanged"

\* every text formatDiffLines can push for a top-level key: marker, key, one
\* of the key's values, comma and annotation
KeyLineTexts(key) ==
  {"  " \o marker \o "\"" \o key \o "\": " \o FormatJsonValue(value, 1) \o comma \o note :
     marker \in {"", "+ ", "- "},
     value \in {GetProp(preA, key), GetProp(preB, key),
                GetProp(Val(heap, merged), key)},
     comma \in {"", ","},
     note \in {"", " // [project]", " // [global]"}}
\* the positions of the output that hold a line for the key
KeyLines(key) == {i \in 1..Len(diffOut.lines) : diffOut.lines[i] \in KeyLineTexts(key)}

\* C24: in generateDiffOutput(base, deepMerge(base, overrides), overrides), a
\* top-level key of overrides that base lacks has exactly one line, a '+' line
\* with the merged value and the annotation // [project]; a top-level key of
\* base that overrides lacks has exactly one line, with no marker and no
\* annotation; the keys' lines come in sorted order.
C24_TopLevelLines ==
  mergePc = "diffed" =>
    /\ \A key \in KeySet(preB) \ KeySet(preA) :
         \E i \in 1..Len(diffOut.lines) :
           /\ KeyLines(key) = {i}
           /\ diffOut.lines[i] \in
                {"  + \"" \o key \o "\": "
                   \o FormatJsonValue(GetProp(Val(heap, merged), key), 1)
                   \o comma \o " // [project]" : comma \in {"", ","}}
    /\ \A key \in KeySet(preA) \ KeySet(preB) :
         \E i \in 1..Len(diffOut.lines) :
           /\ KeyLines(key) = {i}
           /\ diffOut.lines[i] \in
                {"  \"" \o key \o "\": "
                   \o FormatJsonValue(GetProp(Val(heap, merged), key), 1)
                   \o comma : comma \in {"", ","}}
    /\ \A m, n \in 1..Len(KeyOrder) :
         m < n => \A i \in KeyLines(KeyOrder[m]), j \in KeyLines(KeyOrder[n]) : i < j

(***************************************************************************)
(* Properties of the retention sweep.                                       *)
(***************************************************************************)
\* a file last modified more than the retention time before t
Expired(entry, t) == ~entry.isDirectory /\ entry.mtime < t - RetentionS

\* C25: cleanOldBackups raises nothing, returns the number of files it
\* deleted, and a single entry whose metadata cannot be read or that cannot
\* be deleted does not keep it from deleting every other expired file.
C25_SweepNotAborted ==
  swept.called =>
    /\ ~swept.raised
    /\ swept.deletedCount = Cardinality(swept.unlinked)
    /\ (backupsDir.exists /\ ~backupsDir.readdirThrows) =>
         \A i \in 1..Len(backupsDir.files) :
           (/\ Expired(backupsDir.files[i], now)
            /\ ~backupsDir.files[i].statThrows
            /\ ~backupsDir.files[i].unlinkThrows)
           => i \in swept.unlinked

\* C26: cleanOldBackups deletes only entries that are not directories and
\* were last modified strictly more than 30 days before now; a missing or
\* empty directory yields 0 and nothing deleted.
C26_SweepOnlyExpired ==
  swept.called =>
    /\ \A i \in swept.unlinked :
         /\ i \in 1..Len(backupsDir.files)
         /\ ~backupsDir.files[i].isDirectory
         /\ backupsDir.files[i].mtime < now - BACKUP_RETENTION_DAYS * 24 * 60 * 60
    /\ (~backupsDir.exists \/ backupsDir.files = <<>>) =>
         swept.deletedCount = 0 /\ swept.unlinked = {}
    /\ swept.deletedCount = Cardinality(swept.unlinked)

\* an old directory, a file exactly 30 days old and a file a second older:
\* only the last one is deleted
C26_Witness ==
  /\ swept.called
  /\ Len(backupsDir.files) = 3
  /\ backupsDir.files[1].isDirectory
  /\ backupsDir.files[1].mtime < now - RetentionS
  /\ ~backupsDir.files[2].isDirectory /\ backupsDir.files[2].mtime = now - RetentionS
  /\ Expired(backupsDir.files[3], now)
  /\ swept.unlinked = {3} /\ swept.deletedCount = 1

(***************************************************************************)
(* Properties of add on an id the scope already has.                        *)
(***************************************************************************)
\* the last invocation was an add that got past the schema and the validation
AddDecided ==
  Settled /\ lastCmd.cmd = "add" /\ outcome \in {"exists", "added", "updated"}
\* the id of the add was in its scope when the add started
AddIdExisted ==
  IF lastCmd.scope = "user" THEN FindById(snap.index.profiles, lastCmd.id) # 0
  ELSE ConfigExists(snap.pConfigs, lastCmd.id)

\* C27: add of an id its scope already has fails without --force and then
\* leaves the index and the id's stored config file as they were; with --force
\* it succeeds, and in user scope the entry stays where it was with its id and
\* createdAt, no entry is added or dropped, the other entries and the active
\* reference are untouched.
C27_AddExisting ==
  (AddDecided /\ AddIdExisted) =>
    IF ~lastCmd.force
    THEN /\ outcome = "exists"
         /\ index = snap.index
         /\ gConfigs[lastCmd.id] = snap.gConfigs[lastCmd.id]
         /\ pConfigs[lastCmd.id] = snap.pConfigs[lastCmd.id]
    ELSE /\ outcome = "updated"
         /\ lastCmd.scope = "project" => index = snap.index
         /\ lastCmd.scope = "user" =>
              /\ index.activeProfileId = snap.index.activeProfileId
              /\ Len(index.profiles) = Len(snap.index.profiles)
              /\ \A i \in 1..Len(index.profiles) :
                   /\ index.profiles[i].id = snap.index.profiles[i].id
                   /\ index.profiles[i].createdAt = snap.index.profiles[i].createdAt
                   /\ index.profiles[i].id # lastCmd.id
                        => index.profiles[i] = snap.index.profiles[i]

\* add --force of a profile imported by an earlier invocation gave it a new
\* name
C27_Witness ==
  /\ AddDecided /\ AddIdExisted
  /\ lastCmd.force /\ lastCmd.scope = "user" /\ outcome = "updated"
  /\ \E i \in 1..Len(index.profiles) :
       /\ index.profiles[i].id = lastCmd.id
       /\ index.profiles[i].createdAt < ops
       /\ index.profiles[i].name # snap.index.profiles[i].name

(***************************************************************************)
(* Properties of the commands in slim mode.                                 *)
(***************************************************************************)
\* C28: in slim mode a command that rewrites the config file (add, apply or
\* rm of a preset) has called createBackup on that file before its first
\* writing call.
C28_BackupBeforeRewrite ==
  \A i \in 1..Len(omosCalls) :
    omosCalls[i].method \in OmosWriters =>
      \E j \in 1..(i - 1) :
        /\ omosCalls[j].method = "createBackup"
        /\ omosCalls[j].scope = omosCalls[i].scope

(***************************************************************************)
(* The project rc after an apply in project scope.                          *)
(***************************************************************************)
\* the names a profile id goes by: the id, and the name the index gives it
NamesOf(id) ==
  {id} \cup {index.profiles[i].name :
               i \in {j \in 1..Len(index.profiles) : index.profiles[j].id = id}}

\* a project-scope apply has written the content of a project profile
ProjectApplied ==
  /\ Settled /\ outcome = "applied" /\ lastCmd.cmd = "apply"
  /\ lastCmd.scope = "project" /\ lastCmd.source = "project"

\* C29: after a successful apply --scope project whose content was read from
\* project profile P, the rc's activeProfileId is P's id and the header of the
\* written file names P, whatever the global index holds.
C29_ProjectApplyNamesSource ==
  ProjectApplied =>
    /\ rc.activeProfileId = lastCmd.srcId
    /\ \E name \in NamesOf(lastCmd.srcId) :
         pTarget = TargetContent(name, lastCmd.content)

====
